---- MODULE Spec2Model ----
(***************************************************************************)
(* Model of the OWLIN C++ preprocessing / segmentation / recognition core. *)
(*                                                                         *)
(*   Spec      : HybridPreprocessor (tesseract_preprocessing.cpp), its     *)
(*               four smart_* stages and enhanced_preprocess_pipeline.     *)
(*   SpecBatch : the two OpenMP parallel-for loops, Segmenter::            *)
(*               segment_batch and OcrRecognizer::recognize_batch.         *)
(*   SpecDiag  : the flat C API and its thread-local diagnostics slots     *)
(*               (last error, last timing), calls made by one thread.      *)
(***************************************************************************)
EXTENDS Integers, Sequences, FiniteSets, TLC

VARIABLES
    \* ---- HybridPreprocessor ----
    tesseract_available,   \* HybridPreprocessor::tesseract_available_
    g_tesseract_timing,    \* tesseract_preprocessing.cpp thread_local slot
    lastCall,              \* outcome of the most recent smart_* invocation
    primaryFailures,       \* number of invocations whose primary failed (capped)
    pc,                    \* position inside enhanced_preprocess_pipeline
    cur,                   \* the pipeline's local `result`
    trace,                 \* stage invocations of the current pipeline run
    \* ---- the parallel batch loops ----
    bphase,                \* which batch call is running / has returned
    imgs,                  \* the input vector of the batch call
    ipc,                   \* position of every loop iteration
    loc,                   \* the locals of every loop iteration
    results,               \* segment_batch: std::vector<std::vector<Box>> results
    out_texts,             \* recognize_batch output
    out_confidences,       \* recognize_batch output
    out_errors,            \* output of both batch calls
    all_ok,                \* recognize_batch: bool all_ok
    tess,                  \* OcrRecognizer::tess_, the one engine instance
    writes,                \* <<iteration, object, index>> written inside the loop
    finished,              \* segment_batch iterations in their order of completion
    seg_timing,            \* segmentation.cpp g_last_timing
    rec_timing,            \* recognition.cpp g_last_timing
    \* ---- C API diagnostics ----
    pre_last_error,        \* preprocess_c_api.cpp g_last_error
    seg_last_error,        \* segmentation_c_api.cpp g_last_error
    rec_last_error,        \* recognition_c_api.cpp g_last_error
    pp_last_timing,        \* preprocessing.cpp g_last_timing
    seg_api_timing,        \* segmentation_c_api.cpp g_last_timing
    rec_api_timing,        \* recognition_c_api.cpp g_last_timing
    timing_str,            \* get_preprocessing_timing: static std::string timing_str
    ncall,                 \* number of top-level calls made
    lastApi,               \* the most recent top-level call
    lastTimed,             \* per component, the most recent call that is to record a timing
    lastRead,              \* what the most recent timing accessor call returned
    outp,                  \* the caller's *out_buffer and *width, *height, *channels
    \* ---- single calls of the segmentation and field extraction functions ----
    segCall,               \* the most recent segmentation call and what it returned
    fieldCall,             \* the most recent extract_invoice_fields call
    \* ---- the process-wide HybridPreprocessor of preprocessing.cpp ----
    g_hybrid_preprocessor, \* the unique_ptr: 0 (null) or the instance it owns
    instances,             \* every HybridPreprocessor constructed so far
    threads,               \* the caller threads inside preprocessing.cpp
    \* ---- single calls of the contour-based dewarp ----
    dewarpCall,            \* the most recent dewarp call and what it returned
    \* ---- Leptonica handles of one TesseractPreprocessor stage ----
    pixRun                 \* the stage invocation and the Pix handles it created

hvars == <<tesseract_available, g_tesseract_timing, lastCall,
           primaryFailures, pc, cur, trace>>

bvars == <<bphase, imgs, ipc, loc, results, out_texts, out_confidences,
           out_errors, all_ok, tess, writes, finished, seg_timing, rec_timing>>

dvars == <<pre_last_error, seg_last_error, rec_last_error, pp_last_timing,
           seg_api_timing, rec_api_timing, timing_str, ncall, lastApi,
           lastTimed, lastRead, outp>>

lvars == <<g_hybrid_preprocessor, instances, threads>>
ovars == <<dewarpCall, pixRun>>
fvars == <<segCall, fieldCall, lvars, ovars>>

vars == <<hvars, bvars, dvars, fvars>>

(***************************************************************************)
(* Bounds                                                                  *)
(***************************************************************************)
MaxFailures == 2
MaxBatch == 2
MaxApiCalls == 2

(***************************************************************************)
(* Images (cv::Mat).  kind is what the code inspects (empty(), channels());*)
(* hist is the content: the transformations applied to the raw raster, so  *)
(* that "output of strategy S applied to image I" is a distinct value.     *)
(***************************************************************************)
EmptyImg == [kind |-> "empty", hist |-> <<>>]

RawImages == { [kind |-> k, hist |-> <<>>] : k \in {"empty", "gray", "color", "other"} }

\* cv::Mat::empty()
IsEmpty(img) == img.kind = "empty"

\* the result of applying transformation tag to a non-empty raster
Apply(img, tag, kind) == [kind |-> kind, hist |-> Append(img.hist, tag)]

StageOrder == <<"denoise", "threshold", "deskew", "dewarp">>
Stages == {"denoise", "threshold", "deskew", "dewarp"}

TimingName(stage) ==
    CASE stage = "denoise"   -> "tesseract_denoise"
      [] stage = "threshold" -> "tesseract_adaptive_threshold"
      [] stage = "deskew"    -> "tesseract_deskew"
      [] stage = "dewarp"    -> "tesseract_dewarp"

(***************************************************************************)
(* Outcomes of the external libraries during one stage invocation.         *)
(*  prim: what Leptonica / the try block of tesseract_X does               *)
(*     ok       every call succeeds                                        *)
(*     nopix    pixCreate returns NULL (mat_to_pix -> nullptr)             *)
(*     libfail  a Leptonica operation returns NULL (failure signal)        *)
(*     convfail the result is not 8 bpp and pixConvertTo8 returns NULL     *)
(*     throw    something inside the try block throws std::exception       *)
(*  cv: what the OpenCV calls of the fallback do                           *)
(*     ok       they return a transformed image                            *)
(*     noop     deskew: no nonzero pixel; dewarp: no contour / not a quad  *)
(*     throw    an OpenCV call throws cv::Exception                        *)
(***************************************************************************)
PrimOutcomes == {"ok", "nopix", "libfail", "convfail", "throw"}
CvOutcomes == {"ok", "noop", "throw"}
\* A stage invocation consults Leptonica only when the flag is true and
\* OpenCV only when it is false, so one of the two outcomes varies at a time.
Envs == { [prim |-> p, cv |-> "ok"] : p \in PrimOutcomes }
        \cup { [prim |-> "ok", cv |-> c] : c \in CvOutcomes }

\* TesseractPreprocessor::mat_to_pix: nullptr for an empty Mat, for a channel
\* count other than 1 or 3, and when pixCreate fails; a 3-channel Mat is
\* converted to grayscale first.
mat_to_pix(img, env) ==
    IF IsEmpty(img) THEN "null"
    ELSE IF img.kind \in {"gray", "color"}
         THEN IF env.prim = "nopix" THEN "null" ELSE "pix"
         ELSE "null"

\* pix_to_mat applied to the Pix made from img: an 8-bit single channel Mat
\* holding img's (grayscale) content.
pix_to_mat_of_input(img) == [kind |-> "gray", hist |-> img.hist]

(***************************************************************************)
(* TesseractPreprocessor::tesseract_<stage>(img).  Every failure is        *)
(* handled inside: a null Pix and a caught exception both return           *)
(* img.clone(); a NULL from Leptonica returns pix_to_mat(pix), the input.  *)
(* The timing slot is written only on the path that reaches its assignment.*)
(***************************************************************************)
tesseract_stage(stage, img, env, timing) ==
    IF mat_to_pix(img, env) = "null"
    THEN [raised |-> FALSE, out |-> img, failed |-> TRUE,
          producedBy |-> "input", timing |-> timing]
    ELSE IF env.prim = "throw"
    THEN [raised |-> FALSE, out |-> img, failed |-> TRUE,
          producedBy |-> "input", timing |-> timing]
    ELSE IF env.prim = "libfail"
    THEN [raised |-> FALSE, out |-> pix_to_mat_of_input(img), failed |-> TRUE,
          producedBy |-> "input", timing |-> TimingName(stage)]
    ELSE IF env.prim = "convfail"
    THEN [raised |-> FALSE, out |-> EmptyImg, failed |-> TRUE,
          producedBy |-> "primary", timing |-> TimingName(stage)]
    ELSE [raised |-> FALSE, out |-> Apply(img, <<"tess", stage>>, "gray"),
          failed |-> FALSE, producedBy |-> "primary",
          timing |-> TimingName(stage)]

(***************************************************************************)
(* The OpenCV fallback of smart_<stage>.  It is not inside any try block:  *)
(* an OpenCV exception leaves the stage.                                   *)
(***************************************************************************)
opencv_fallback(stage, img, env) ==
    IF env.cv = "throw"
    THEN [raised |-> TRUE, out |-> EmptyImg]
    ELSE IF env.cv = "noop" /\ stage \in {"deskew", "dewarp"}
    THEN [raised |-> FALSE, out |-> img]
    ELSE IF IsEmpty(img)
    THEN [raised |-> FALSE, out |-> EmptyImg]
    ELSE [raised |-> FALSE, out |-> Apply(img, <<"cv", stage>>, img.kind)]

(***************************************************************************)
(* HybridPreprocessor::smart_<stage>(img), as (this, img) -> (this', result)*)
(***************************************************************************)
\* smart_<stage> as it would be if it downgraded the cached flag after a
\* failed primary.
smart_stage_downgrading(stage, img, flag, env, timing) ==
    LET p == tesseract_stage(stage, img, env, timing)
        f == opencv_fallback(stage, img, env)
    IN  IF flag /\ ~p.raised
        THEN [stage |-> stage, input |-> img, flag |-> flag,
              raised |-> FALSE, fallbackFailed |-> FALSE, out |-> p.out,
              primaryAttempts |-> 1, primaryFailed |-> p.failed,
              fallbackAttempts |-> 0, producedBy |-> p.producedBy,
              timing |-> p.timing, flagAfter |-> flag /\ ~p.failed]
        ELSE [stage |-> stage, input |-> img, flag |-> flag,
              raised |-> f.raised, fallbackFailed |-> f.raised, out |-> f.out,
              primaryAttempts |-> IF flag THEN 1 ELSE 0,
              primaryFailed |-> flag,
              fallbackAttempts |-> 1,
              producedBy |-> IF f.raised THEN "none" ELSE "fallback",
              timing |-> IF flag THEN p.timing ELSE timing,
              flagAfter |-> FALSE]

smart_stage(stage, img, flag, env, timing) ==
    LET p == tesseract_stage(stage, img, env, timing)
        f == opencv_fallback(stage, img, env)
    IN  IF flag /\ ~p.raised
        THEN [stage |-> stage, input |-> img, flag |-> flag,
              raised |-> FALSE, fallbackFailed |-> FALSE, out |-> p.out,
              primaryAttempts |-> 1, primaryFailed |-> p.failed,
              fallbackAttempts |-> 0, producedBy |-> p.producedBy,
              timing |-> p.timing, flagAfter |-> flag]
        ELSE [stage |-> stage, input |-> img, flag |-> flag,
              raised |-> f.raised, fallbackFailed |-> f.raised, out |-> f.out,
              primaryAttempts |-> IF flag THEN 1 ELSE 0,
              primaryFailed |-> flag,
              fallbackAttempts |-> 1,
              producedBy |-> IF f.raised THEN "none" ELSE "fallback",
              timing |-> IF flag THEN p.timing ELSE timing,
              flagAfter |-> flag]

NoCall == [stage |-> "none", input |-> EmptyImg, flag |-> FALSE,
           raised |-> FALSE, fallbackFailed |-> FALSE, out |-> EmptyImg,
           primaryAttempts |-> 0, primaryFailed |-> FALSE,
           fallbackAttempts |-> 0, producedBy |-> "none",
           timing |-> "", flagAfter |-> FALSE]

\* HybridPreprocessor::HybridPreprocessor: the flag is is_available() (true)
\* unless constructing the TesseractPreprocessor throws.
HybridPreprocessorCtor(ctorThrows) == IF ctorThrows THEN FALSE ELSE TRUE

Cap(n) == IF n < MaxFailures THEN n + 1 ELSE MaxFailures

HInit ==
    /\ \E ctorThrows \in BOOLEAN :
          tesseract_available = HybridPreprocessorCtor(ctorThrows)
    /\ g_tesseract_timing = ""
    /\ lastCall = NoCall
    /\ primaryFailures = 0
    /\ pc = "idle"
    /\ cur = EmptyImg
    /\ trace = <<>>

Idle == pc \in {"idle", "done", "raised"}

\* A caller invokes one smart_* stage directly.
SmartCall(stage, img, env) ==
    /\ Idle
    /\ LET r == smart_stage(stage, img, tesseract_available, env, g_tesseract_timing)
       IN /\ lastCall' = r
          /\ tesseract_available' = r.flagAfter
          /\ g_tesseract_timing' = r.timing
          /\ primaryFailures' = IF r.primaryFailed THEN Cap(primaryFailures)
                                ELSE primaryFailures
    /\ UNCHANGED <<pc, cur, trace>>
    /\ UNCHANGED bvars
    /\ UNCHANGED dvars
    /\ UNCHANGED fvars

\* enhanced_preprocess_pipeline: cv::Mat result = img;
PipelineStart(img) ==
    /\ Idle
    /\ pc' = "denoise"
    /\ cur' = img
    /\ trace' = <<>>
    /\ UNCHANGED <<tesseract_available, g_tesseract_timing, lastCall,
                   primaryFailures>>
    /\ UNCHANGED bvars
    /\ UNCHANGED dvars
    /\ UNCHANGED fvars

NextPc(stage) ==
    CASE stage = "denoise"   -> "threshold"
      [] stage = "threshold" -> "deskew"
      [] stage = "deskew"    -> "dewarp"
      [] stage = "dewarp"    -> "done"

\* result = smart_<pc>(result); after the last stage the pipeline writes its
\* own timing.  An exception leaving the stage leaves the pipeline too.
PipelineStep(env) ==
    /\ pc \in Stages
    /\ LET r == smart_stage(pc, cur, tesseract_available, env, g_tesseract_timing)
       IN /\ lastCall' = r
          /\ tesseract_available' = r.flagAfter
          /\ primaryFailures' = IF r.primaryFailed THEN Cap(primaryFailures)
                                ELSE primaryFailures
          /\ trace' = Append(trace, [stage |-> pc, input |-> cur,
                                     raised |-> r.raised, out |-> r.out])
          /\ IF r.raised
             THEN /\ pc' = "raised"
                  /\ cur' = cur
                  /\ g_tesseract_timing' = r.timing
             ELSE /\ pc' = NextPc(pc)
                  /\ cur' = r.out
                  /\ g_tesseract_timing' =
                        IF NextPc(pc) = "done" THEN "enhanced_preprocess_pipeline"
                        ELSE r.timing
    /\ UNCHANGED bvars
    /\ UNCHANGED dvars
    /\ UNCHANGED fvars

(***************************************************************************)
(* Segmentation images.  A raster is given by its Otsu binarization        *)
(* (THRESH_BINARY_INV: ink is nonzero): every row is the set of columns    *)
(* that hold a foreground pixel.  A Mat of zero rows is empty().           *)
(***************************************************************************)
SegCols == 20

RowsOf(n, row) == [i \in 1..n |-> row]

SegImgEmpty == [channels |-> 1, cols |-> 0, rows |-> <<>>]
SegImgColor == [channels |-> 3, cols |-> SegCols, rows |-> RowsOf(10, 2..11)]
SegImgBlank == [channels |-> 1, cols |-> SegCols, rows |-> RowsOf(10, {})]
SegImgBandA == [channels |-> 1, cols |-> SegCols,
                rows |-> RowsOf(1, {}) \o RowsOf(8, 2..11) \o RowsOf(1, {})]
SegImgBandB == [channels |-> 1, cols |-> SegCols,
                rows |-> RowsOf(9, 4..15) \o RowsOf(1, {5})]

SegImages == {SegImgEmpty, SegImgColor, SegImgBlank, SegImgBandA, SegImgBandB}

SetMin(S) == CHOOSE x \in S : \A y \in S : x <= y
SetMax(S) == CHOOSE x \in S : \A y \in S : x >= y

min_line_height == 8
min_line_sum(img) == img.cols \div 20

\* cv::countNonZero(bin.row(y)), y counted from 0
proj(img, y) == Cardinality(img.rows[y + 1])

\* the band emission as it would be with a width one column too large
CloseBand_widthOffByOne(img, y0, y1, boxes) ==
    IF y1 - y0 + 1 >= min_line_height
    THEN LET inkRows == { yy \in y0..y1 : img.rows[yy + 1] # {} }
             x_min == SetMin({img.cols} \cup { SetMin(img.rows[yy + 1]) : yy \in inkRows })
             x_max == SetMax({0} \cup { SetMax(img.rows[yy + 1]) : yy \in inkRows })
         IN  IF x_max > x_min
             THEN Append(boxes, [x |-> x_min, y |-> y0,
                                 w |-> x_max - x_min + 2, h |-> y1 - y0 + 1])
             ELSE boxes
    ELSE boxes

\* the body of `if (in_line)` for the band y0..y1: the band is kept when it
\* has at least min_line_height rows and x_max > x_min.
CloseBand(img, y0, y1, boxes) ==
    IF y1 - y0 + 1 >= min_line_height
    THEN LET inkRows == { yy \in y0..y1 : img.rows[yy + 1] # {} }
             x_min == SetMin({img.cols} \cup { SetMin(img.rows[yy + 1]) : yy \in inkRows })
             x_max == SetMax({0} \cup { SetMax(img.rows[yy + 1]) : yy \in inkRows })
         IN  IF x_max > x_min
             THEN Append(boxes, [x |-> x_min, y |-> y0,
                                 w |-> x_max - x_min + 1, h |-> y1 - y0 + 1])
             ELSE boxes
    ELSE boxes

\* the loop as it would be if a band open after the last row were closed too
RECURSIVE ScanRows_flushAtEnd(_, _, _, _, _)
ScanRows_flushAtEnd(img, y, in_line, y0, boxes) ==
    IF y >= Len(img.rows)
    THEN (IF in_line THEN CloseBand(img, y0, y - 1, boxes) ELSE boxes)
    ELSE IF proj(img, y) > min_line_sum(img)
    THEN ScanRows_flushAtEnd(img, y + 1, TRUE, IF in_line THEN y0 ELSE y, boxes)
    ELSE IF in_line
    THEN ScanRows_flushAtEnd(img, y + 1, FALSE, y0, CloseBand(img, y0, y - 1, boxes))
    ELSE ScanRows_flushAtEnd(img, y + 1, FALSE, y0, boxes)

\* the loop `for (int y = 0; y < bin.rows; ++y)` of Segmenter::segment_lines
RECURSIVE ScanRows(_, _, _, _, _)
ScanRows(img, y, in_line, y0, boxes) ==
    IF y >= Len(img.rows) THEN boxes
    ELSE IF proj(img, y) > min_line_sum(img)
    THEN ScanRows(img, y + 1, TRUE, IF in_line THEN y0 ELSE y, boxes)
    ELSE IF in_line
    THEN ScanRows(img, y + 1, FALSE, y0, CloseBand(img, y0, y - 1, boxes))
    ELSE ScanRows(img, y + 1, FALSE, y0, boxes)

\* img.empty() || img.channels() != 1
SegMalformed(img) == Len(img.rows) = 0 \/ img.cols = 0 \/ img.channels # 1

\* segment_lines as it would be if a page without ink were a usage error
segment_lines_blankIsError(img) ==
    IF SegMalformed(img) \/ \A y \in 1..Len(img.rows) : img.rows[y] = {}
    THEN [boxes |-> <<>>, err |-> "Input image must be non-empty and grayscale"]
    ELSE [boxes |-> ScanRows(img, 0, FALSE, 0, <<>>), err |-> ""]

\* Segmenter::segment_lines(img, err_msg): the boxes and the final err_msg
segment_lines(img) ==
    IF SegMalformed(img)
    THEN [boxes |-> <<>>, err |-> "Input image must be non-empty and grayscale"]
    ELSE [boxes |-> ScanRows(img, 0, FALSE, 0, <<>>), err |-> ""]

(***************************************************************************)
(* Single calls of the segmentation entry points on page images made of    *)
(* horizontal ink bands: `top` blank rows, k bands of h rows each with the *)
(* ink columns `ink`, separated by `gap` blank rows, `bottom` blank rows.  *)
(***************************************************************************)
MaxBands == 3

\* ink of a band row: a run of 10 columns inside the image, a run that
\* touches both image borders, and a run with a hole of paper in it
InkWide == 2..11
InkFull == 0..(SegCols - 1)
InkBroken == {2, 3, 4, 8, 9, 10, 11}
InkPatterns == {InkWide, InkFull, InkBroken}

BandHeights == {min_line_height - 1, min_line_height, min_line_height + 1}

RECURSIVE BandRows(_, _, _, _)
BandRows(k, h, gap, ink) ==
    IF k = 0 THEN <<>>
    ELSE IF k = 1 THEN RowsOf(h, ink)
    ELSE RowsOf(h, ink) \o RowsOf(gap, {}) \o BandRows(k - 1, h, gap, ink)

BandImage(top, k, h, gap, bottom, ink) ==
    [channels |-> 1, cols |-> SegCols,
     rows |-> RowsOf(top, {}) \o BandRows(k, h, gap, ink) \o RowsOf(bottom, {})]

BandImages ==
    { BandImage(top, k, h, gap, bottom, ink) :
        top \in 0..1, k \in 0..MaxBands, h \in BandHeights, gap \in 1..2,
        bottom \in 0..1, ink \in InkPatterns }

\* the inputs of a single segmentation call
SegInputs == BandImages \cup SegImages

\* Segmenter::segment_words: the usage check, then the bounding rectangle of
\* every external contour, kept when wider and taller than 5.  On the page
\* images above a contour is a maximal run of rows that hold ink.
HasInk(img, y) == y >= 0 /\ y < Len(img.rows) /\ img.rows[y + 1] # {}

RunEnd(img, y0) ==
    SetMax({ y1 \in y0..(Len(img.rows) - 1) : \A yy \in y0..y1 : HasInk(img, yy) })

ContourRect(img, y0) ==
    LET y1 == RunEnd(img, y0)
        xs == UNION { img.rows[yy + 1] : yy \in y0..y1 }
    IN  [x |-> SetMin(xs), y |-> y0, w |-> SetMax(xs) - SetMin(xs) + 1,
         h |-> y1 - y0 + 1]

RECURSIVE RectsFrom(_, _)
RectsFrom(img, y) ==
    IF y >= Len(img.rows) THEN <<>>
    ELSE IF HasInk(img, y) /\ ~HasInk(img, y - 1)
    THEN LET r == ContourRect(img, y)
         IN  (IF r.w > 5 /\ r.h > 5 THEN <<r>> ELSE <<>>) \o RectsFrom(img, y + 1)
    ELSE RectsFrom(img, y + 1)

segment_words(img) ==
    IF SegMalformed(img)
    THEN [boxes |-> <<>>, err |-> "Input image must be non-empty and grayscale",
          raised |-> FALSE]
    ELSE [boxes |-> RectsFrom(img, 0), err |-> "", raised |-> FALSE]

\* The gray value of the ink pixels of a page (the paper is lighter).  It
\* decides what Otsu's threshold does on a crop that is ink everywhere.
InkLevels == {0, 40}

\* the pixels <<x, y>> of img(cv::Rect(line.x, line.y, line.w, line.h))
CropPixels(line) ==
    (line.x..(line.x + line.w - 1)) \X (line.y..(line.y + line.h - 1))

\* cv::threshold(roi, bin, 0, 255, THRESH_BINARY_INV | THRESH_OTSU) on the
\* crop: with ink and paper in the crop the threshold separates them and the
\* ink is nonzero; on a crop of one gray value Otsu's threshold is 0, and
\* the pixels are nonzero exactly when that value is 0.
Rebinarize(img, level, line) ==
    LET ink == { px \in CropPixels(line) : px[1] \in img.rows[px[2] + 1] }
    IN  IF ink = CropPixels(line)
        THEN (IF level = 0 THEN ink ELSE {})
        ELSE ink

\* the confidence as it would be computed by an integer division
Confidence_integerDivision(img, level, line) ==
    [num |-> Cardinality(Rebinarize(img, level, line)) \div (line.h * line.w),
     den |-> 1]

\* (double)cv::countNonZero(bin) / (bin.rows * bin.cols), kept as a fraction
Confidence(img, level, line) ==
    [num |-> Cardinality(Rebinarize(img, level, line)), den |-> line.h * line.w]

\* Segmenter::segment_with_confidence: segment_lines, an empty result when it
\* reported an error, otherwise one scored box per line in the order of lines
segment_with_confidence(img, level) ==
    LET r == segment_lines(img)
    IN  IF r.err # "" THEN [boxes |-> <<>>, scored |-> <<>>, err |-> r.err, raised |-> FALSE]
        ELSE [boxes |-> r.boxes,
              scored |-> [i \in 1..Len(r.boxes) |->
                            [box |-> r.boxes[i],
                             confidence |-> Confidence(img, level, r.boxes[i])]],
              err |-> "", raised |-> FALSE]

\* the free function segment_lines(bin_img) of line_segmentation.cpp: it
\* throws std::invalid_argument for an empty or non-CV_8UC1 image; a row
\* belongs to a line when its sum exceeds 10 * 255 (more than 10 pixels of
\* value 255); a band is emitted at the first row at or below the threshold.
free_threshold == 10

RECURSIVE FreeScan(_, _, _, _, _)
FreeScan(img, y, in_line, start, lines) ==
    IF y >= Len(img.rows) THEN lines
    ELSE LET val == Cardinality(img.rows[y + 1])
         IN  IF ~in_line /\ val > free_threshold
             THEN FreeScan(img, y + 1, TRUE, y, lines)
             ELSE IF in_line /\ val <= free_threshold
             THEN LET xs == UNION { img.rows[yy + 1] : yy \in start..(y - 1) }
                      bbox == [x |-> SetMin(xs), y |-> start,
                               w |-> SetMax(xs) - SetMin(xs) + 1, h |-> y - start]
                  IN  FreeScan(img, y + 1, FALSE, start, Append(lines, bbox))
             ELSE FreeScan(img, y + 1, in_line, start, lines)

free_segment_lines(img) ==
    IF SegMalformed(img)
    THEN [boxes |-> <<>>, err |-> "", raised |-> TRUE]
    ELSE [boxes |-> FreeScan(img, 0, FALSE, 0, <<>>), err |-> "", raised |-> FALSE]

SegEntries == {"Segmenter::segment_lines", "Segmenter::segment_words",
               "Segmenter::segment_with_confidence", "segment_lines"}

NoSegCall == [entry |-> "none", img |-> SegImgEmpty, level |-> 0, boxes |-> <<>>,
              scored |-> <<>>, err |-> "", raised |-> FALSE]

\* what a segmentation entry point returns for img and a fresh err_msg
SegCallResult(entry, img, level) ==
    CASE entry = "Segmenter::segment_lines" ->
            [boxes |-> segment_lines(img).boxes, scored |-> <<>>,
             err |-> segment_lines(img).err, raised |-> FALSE]
      [] entry = "Segmenter::segment_words" ->
            [boxes |-> segment_words(img).boxes, scored |-> <<>>,
             err |-> segment_words(img).err, raised |-> FALSE]
      [] entry = "Segmenter::segment_with_confidence" -> segment_with_confidence(img, level)
      [] entry = "segment_lines" ->
            [boxes |-> free_segment_lines(img).boxes, scored |-> <<>>,
             err |-> "", raised |-> free_segment_lines(img).raised]

\* the caller holds the image segCall.img and calls one entry point on it
CallSegmenter(entry) ==
    /\ segCall.entry = "none"
    /\ LET r == SegCallResult(entry, segCall.img, segCall.level)
       IN  segCall' = [entry |-> entry, img |-> segCall.img, level |-> segCall.level,
                       boxes |-> r.boxes, scored |-> r.scored,
                       err |-> r.err, raised |-> r.raised]
    /\ UNCHANGED <<fieldCall, lvars, ovars>>
    /\ UNCHANGED <<hvars, bvars, dvars>>

(***************************************************************************)
(* Leptonica Pix handles in the stages of TesseractPreprocessor             *)
(* (tesseract_preprocessing.cpp, lines 34-292).  A handle is what one       *)
(* library call returned; the table hs holds, for every handle created      *)
(* during a stage invocation, its depth and how often pixDestroy was called *)
(* on it.  A library call returns null (depth 0 here) or a Pix of depth 1   *)
(* or 8.                                                                    *)
(***************************************************************************)
PixStages == {"threshold", "deskew", "dewarp", "denoise"}

\* results of a Leptonica call that returns a Pix: 0 is a null pointer
LibResults == {0, 1, 8}

\* pixCreate / a library call made a Pix of this depth: its handle is the
\* next index of the table
PixNew(hs, depth) == Append(hs, [depth |-> depth, destroys |-> 0])
\* pixDestroy(&pix) through a pointer to handle id
PixDestroy(hs, id) == [hs EXCEPT ![id].destroys = @ + 1]

\* a library call with result r: the table and the pointer (0: null)
LibCall(hs, r) ==
    IF r = 0 THEN [hs |-> hs, pix |-> 0]
    ELSE [hs |-> PixNew(hs, r), pix |-> Len(hs) + 1]

\* pix_to_mat (lines 65-92), the handle table after it: for a depth other
\* than 8, pixConvertTo8 makes pix8, pixDestroy is called on the caller's
\* Pix, and pix8 is read and left behind
pix_to_mat(hs, pix, convOk) ==
    IF pix = 0 THEN hs
    ELSE IF hs[pix].depth # 8
    THEN (IF ~convOk THEN hs
          ELSE PixDestroy(PixNew(hs, 8), pix))
    ELSE hs

\* apply_tesseract_thresholding (lines 118-147)
apply_tesseract_thresholding(hs, pix, r, convOk) ==
    LET otsu == LibCall(hs, r[1])
    IN  IF otsu.pix = 0 THEN pix_to_mat(otsu.hs, pix, convOk)
        ELSE LET local == LibCall(otsu.hs, r[2])
             IN  IF local.pix = 0
                 THEN pix_to_mat(PixDestroy(local.hs, otsu.pix), pix, convOk)
                 ELSE LET combined == LibCall(local.hs, r[3])
                          conv == pix_to_mat(combined.hs,
                                     IF combined.pix # 0 THEN combined.pix ELSE otsu.pix,
                                     convOk)
                          d2 == PixDestroy(PixDestroy(conv, otsu.pix), local.pix)
                      IN  IF combined.pix # 0 THEN PixDestroy(d2, combined.pix) ELSE d2

\* apply_tesseract_deskewing (lines 173-189) and apply_tesseract_dewarping
\* (lines 215-245): one library Pix (pix_skew, pix_crop), converted and
\* destroyed; a null Boxa or Box leads to the same return as a null pix_crop
apply_one_result(hs, pix, r, convOk) ==
    LET made == LibCall(hs, r[1])
    IN  IF made.pix = 0 THEN pix_to_mat(made.hs, pix, convOk)
        ELSE PixDestroy(pix_to_mat(made.hs, made.pix, convOk), made.pix)

\* apply_tesseract_denoising (lines 271-292)
apply_tesseract_denoising(hs, pix, r, convOk) ==
    LET open == LibCall(hs, r[1])
    IN  IF open.pix = 0 THEN pix_to_mat(open.hs, pix, convOk)
        ELSE LET close == LibCall(open.hs, r[2])
                 d1 == PixDestroy(close.hs, open.pix)
             IN  IF close.pix = 0 THEN pix_to_mat(d1, pix, convOk)
                 ELSE PixDestroy(pix_to_mat(d1, close.pix, convOk), close.pix)

\* tesseract_adaptive_threshold / tesseract_deskew / tesseract_dewarp /
\* tesseract_denoise: mat_to_pix (a Pix of depth 8, or null), the apply_
\* function, pixDestroy(&pix)
tesseract_stage_handles(stage, matOk, r, convOk) ==
    IF ~matOk THEN <<>>
    ELSE LET hs == PixNew(<<>>, 8)
             after == CASE stage = "threshold" -> apply_tesseract_thresholding(hs, 1, r, convOk)
                        [] stage = "denoise" -> apply_tesseract_denoising(hs, 1, r, convOk)
                        [] OTHER -> apply_one_result(hs, 1, r, convOk)
         IN  PixDestroy(after, 1)

NoPixRun == [stage |-> "none", matOk |-> FALSE, r |-> <<0, 0, 0>>, convOk |-> FALSE,
             returned |-> FALSE, handles |-> <<>>]

\* one invocation of a stage, with the outcomes of its library calls
CallPixStage ==
    /\ pixRun.stage \in PixStages
    /\ ~pixRun.returned
    /\ pixRun' = [pixRun EXCEPT
                     !.returned = TRUE,
                     !.handles = tesseract_stage_handles(pixRun.stage, pixRun.matOk,
                                                         pixRun.r, pixRun.convOk)]
    /\ UNCHANGED <<segCall, fieldCall, lvars, dewarpCall>>
    /\ UNCHANGED <<hvars, bvars, dvars>>

(***************************************************************************)
(* The contour-based dewarp: dewarp (preprocessing.cpp, lines 82-115) and   *)
(* the OpenCV fallback of HybridPreprocessor::smart_dewarp                  *)
(* (tesseract_preprocessing.cpp, lines 512-542), which is the same code.    *)
(* findContours and approxPolyDP are the vision library's: a call is given  *)
(* by the image and by what they return for it, no contour or the polygon   *)
(* approximating the largest contour.                                       *)
(***************************************************************************)
MaxCoord == 2

Points == [x : 0..MaxCoord, y : 0..MaxCoord]

Pt(x, y) == [x |-> x, y |-> y]

\* the four-vertex polygons: four different points, in contour order
Quads == { q \in [1..4 -> Points] : \A i, j \in 1..4 : i # j => q[i] # q[j] }

Triangle == <<Pt(0, 0), Pt(2, 0), Pt(1, 2)>>
Pentagon == <<Pt(0, 0), Pt(2, 0), Pt(2, 1), Pt(1, 2), Pt(0, 1)>>

NoContour == [found |-> FALSE, quad |-> <<>>]
Approximations ==
    {NoContour} \cup { [found |-> TRUE, quad |-> q] : q \in {Triangle, Pentagon} \cup Quads }

PageData == [of |-> "input", src |-> <<>>]
DewarpImages == { [cols |-> 4, rows |-> 3, channels |-> c, data |-> PageData] : c \in {1, 3} }

\* std::sort(quad.begin(), quad.end(), a.y < b.y): every ordering of the
\* vertices with non-decreasing y (std::sort fixes no order among equal y)
SortedByY(quad) ==
    LET n == Len(quad)
        perms == { p \in [1..n -> 1..n] : \A i, j \in 1..n : i # j => p[i] # p[j] }
    IN  { [i \in 1..n |-> quad[p[i]]] :
            p \in { r \in perms : \A i \in 1..(n - 1) : quad[r[i]].y <= quad[r[i + 1]].y } }

\* a.x < b.x ? a : b   and   a.x > b.x ? a : b
PickLess(a, b) == IF a.x < b.x THEN a ELSE b
PickGreater(a, b) == IF a.x > b.x THEN a ELSE b

\* src[0..3]: top-left, top-right, bottom-left, bottom-right
SrcCorners(quad) ==
    <<PickLess(quad[1], quad[2]), PickGreater(quad[1], quad[2]),
      PickLess(quad[3], quad[4]), PickGreater(quad[3], quad[4])>>

\* (int) of cv::norm(a - b) for the larger of two distances, from the
\* squared distances
Dist2(a, b) == (a.x - b.x) * (a.x - b.x) + (a.y - b.y) * (a.y - b.y)
ISqrt(n) == CHOOSE r \in 0..n : r * r <= n /\ (r + 1) * (r + 1) > n
MaxNorm(a, b, c, d) ==
    ISqrt(IF Dist2(a, b) >= Dist2(c, d) THEN Dist2(a, b) ELSE Dist2(c, d))

\* the polygon test as it would be with `quad.size() < 4`
IsQuad_fourOrMore(quad) == Len(quad) >= 4

\* !(quad.size() != 4)
IsQuad(quad) == Len(quad) = 4

\* the function from `if (contours.empty())` on; sorted is quad after
\* std::sort
contour_dewarp(img, approx, sorted) ==
    IF ~approx.found THEN img
    ELSE IF ~IsQuad(approx.quad) THEN img
    ELSE LET src == SrcCorners(sorted)
         IN  [cols |-> MaxNorm(src[1], src[2], src[3], src[4]),
              rows |-> MaxNorm(src[1], src[3], src[2], src[4]),
              channels |-> img.channels,
              data |-> [of |-> "warped", src |-> src]]

DewarpEntries == {"dewarp", "HybridPreprocessor::smart_dewarp"}

NoDewarpCall == [entry |-> "none", img |-> [cols |-> 4, rows |-> 3, channels |-> 1,
                                            data |-> PageData],
                 approx |-> NoContour, sorted |-> <<>>,
                 out |-> [cols |-> 0, rows |-> 0, channels |-> 1, data |-> PageData]]

OIdle ==
    /\ dewarpCall = NoDewarpCall
    /\ pixRun = NoPixRun

\* the caller holds the image dewarpCall.img, for which the vision library
\* finds dewarpCall.approx, and calls one of the two functions on it
CallDewarp(entry) ==
    /\ dewarpCall.entry = "none"
    /\ \E sorted \in (IF dewarpCall.approx.found /\ IsQuad(dewarpCall.approx.quad)
                      THEN SortedByY(dewarpCall.approx.quad)
                      ELSE {dewarpCall.approx.quad}) :
          dewarpCall' = [dewarpCall EXCEPT
                            !.entry = entry, !.sorted = sorted,
                            !.out = contour_dewarp(dewarpCall.img, dewarpCall.approx, sorted)]
    /\ UNCHANGED <<segCall, fieldCall, lvars, pixRun>>
    /\ UNCHANGED <<hvars, bvars, dvars>>

(***************************************************************************)
(* get_hybrid_preprocessor (preprocessing.cpp, lines 13-21): the lazily     *)
(* constructed process-wide HybridPreprocessor, reached from                *)
(* enhanced_preprocess_image and is_tesseract_preprocessing_available.  The *)
(* function takes no lock, so callers on several threads interleave at its  *)
(* statements: the null test, make_unique, the move assignment (which       *)
(* deletes the instance owned before) and get().                            *)
(***************************************************************************)
MaxThreads == 2

Threads == 1..MaxThreads

LazyCalls == {"enhanced_preprocess_image", "is_tesseract_preprocessing_available"}

\* outcomes of std::make_unique<HybridPreprocessor>(): constructed with the
\* probe succeeding, constructed with the probe's exception caught by the
\* constructor, or std::bad_alloc for the HybridPreprocessor itself
MakeOutcomes == {"ok", "ctor_caught", "bad_alloc"}

\* ret: what is_tesseract_preprocessing_available returned (-1: nothing yet);
\* used: the instance enhanced_preprocess_pipeline was called on
NoThread == [pc |-> "idle", call |-> "none", tmp |-> 0, ptr |-> 0, ret |-> -1,
             used |-> "none"]

LIdle ==
    /\ g_hybrid_preprocessor = 0
    /\ instances = <<>>
    /\ threads = [t \in Threads |-> NoThread]

LazyFrame ==
    /\ UNCHANGED <<segCall, fieldCall, ovars>>
    /\ UNCHANGED <<hvars, bvars, dvars>>

\* a thread enters one of the two functions and reaches
\* get_hybrid_preprocessor()
ThreadCall(t, fn) ==
    /\ threads[t].pc = "idle"
    /\ threads' = [threads EXCEPT ![t] = [NoThread EXCEPT !.pc = "test", !.call = fn]]
    /\ UNCHANGED <<g_hybrid_preprocessor, instances>>
    /\ LazyFrame

\* line 17: if (!g_hybrid_preprocessor)
TestNull(t) ==
    /\ threads[t].pc = "test"
    /\ threads' = [threads EXCEPT ![t].pc =
                      IF g_hybrid_preprocessor = 0 THEN "make" ELSE "get"]
    /\ UNCHANGED <<g_hybrid_preprocessor, instances>>
    /\ LazyFrame

\* line 18, right-hand side: std::make_unique<HybridPreprocessor>().
\* std::bad_alloc leaves get_hybrid_preprocessor: enhanced_preprocess_image
\* lets it through, is_tesseract_preprocessing_available catches it and
\* returns false (lines 224-227), which the C function turns into 0.
MakeUnique(t, outcome) ==
    /\ threads[t].pc = "make"
    /\ IF outcome = "bad_alloc"
       THEN /\ threads' = [threads EXCEPT ![t] =
                   IF threads[t].call = "is_tesseract_preprocessing_available"
                   THEN [@ EXCEPT !.pc = "done", !.ret = 0]
                   ELSE [@ EXCEPT !.pc = "raised"]]
            /\ UNCHANGED instances
       ELSE /\ instances' = Append(instances,
                   [alive |-> TRUE,
                    tesseract_available_ |-> HybridPreprocessorCtor(outcome = "ctor_caught")])
            /\ threads' = [threads EXCEPT ![t] =
                              [@ EXCEPT !.pc = "assign", !.tmp = Len(instances) + 1]]
    /\ UNCHANGED g_hybrid_preprocessor
    /\ LazyFrame

\* line 18, the move assignment: the unique_ptr takes the new instance and
\* deletes the one it owned
AssignUnique(t) ==
    /\ threads[t].pc = "assign"
    /\ g_hybrid_preprocessor' = threads[t].tmp
    /\ instances' = IF g_hybrid_preprocessor = 0 THEN instances
                    ELSE [instances EXCEPT ![g_hybrid_preprocessor].alive = FALSE]
    /\ threads' = [threads EXCEPT ![t].pc = "get"]
    /\ LazyFrame

\* line 20: return g_hybrid_preprocessor.get();
GetPointer(t) ==
    /\ threads[t].pc = "get"
    /\ threads' = [threads EXCEPT ![t] = [@ EXCEPT !.pc = "have",
                                                     !.ptr = g_hybrid_preprocessor]]
    /\ UNCHANGED <<g_hybrid_preprocessor, instances>>
    /\ LazyFrame

\* is_tesseract_preprocessing_available, line 223: return true; the C
\* function (preprocess_c_api.cpp, line 171) returns 1
ReturnAvailable(t) ==
    /\ threads[t].pc = "have"
    /\ threads[t].call = "is_tesseract_preprocessing_available"
    /\ threads' = [threads EXCEPT ![t] = [@ EXCEPT !.pc = "done", !.ret = 1]]
    /\ UNCHANGED <<g_hybrid_preprocessor, instances>>
    /\ LazyFrame

\* enhanced_preprocess_image, line 207:
\* preprocessor->enhanced_preprocess_pipeline(resized); a call through a
\* pointer to a deleted instance is recorded as "freed"
RunOnInstance(t) ==
    /\ threads[t].pc = "have"
    /\ threads[t].call = "enhanced_preprocess_image"
    /\ threads' = [threads EXCEPT ![t] = [@ EXCEPT !.pc = "done",
                      !.used = IF instances[threads[t].ptr].alive THEN "live" ELSE "freed"]]
    /\ UNCHANGED <<g_hybrid_preprocessor, instances>>
    /\ LazyFrame

(***************************************************************************)
(* extract_invoice_fields (postprocessing.cpp).  A text is a sequence of    *)
(* characters; the three std::regex patterns are matched as ECMAScript      *)
(* regex_search does: leftmost start, greedy quantifiers with backtracking. *)
(***************************************************************************)
Digits == {"0", "1", "2", "3", "4", "5", "6", "7", "8", "9"}
Spaces == {" ", "\n", "\t"}

\* std::regex::icase on the letters the patterns contain
Fold(c) ==
    CASE c = "I" -> "i" [] c = "N" -> "n" [] c = "V" -> "v" [] c = "T" -> "t"
      [] c = "O" -> "o" [] c = "A" -> "a" [] c = "L" -> "l" [] OTHER -> c

\* the character at position p, "" past either end
At(text, p) == IF p \in 1..Len(text) THEN text[p] ELSE ""

IsDigit(c) == c \in Digits
IsSpace(c) == c \in Spaces
\* [^\d]: any character that is not a digit, the newline included
IsNonDigit(c) == c # "" /\ c \notin Digits

\* the literal lit at position p, letters compared case-insensitively
LitAt(text, p, lit) == \A i \in 1..Len(lit) : Fold(At(text, p + i - 1)) = Fold(lit[i])

\* length of the longest run of digits / spaces / non-digits starting at p
DigitRun(text, p) ==
    SetMax({ n \in 0..(Len(text) + 1 - p) : \A i \in 0..(n - 1) : IsDigit(At(text, p + i)) })
SpaceRun(text, p) ==
    SetMax({ n \in 0..(Len(text) + 1 - p) : \A i \in 0..(n - 1) : IsSpace(At(text, p + i)) })
NonDigitRun(text, p) ==
    SetMax({ n \in 0..(Len(text) + 1 - p) : \A i \in 0..(n - 1) : IsNonDigit(At(text, p + i)) })

NoMatch == [found |-> FALSE, str |-> <<>>]
Match(text, from, len) == [found |-> TRUE, str |-> SubSeq(text, from, from + len - 1)]

\* (INV\s*\d+), icase, tried at start position p: the lengths (s, d) of \s*
\* and \d+ for which the pattern matches; the greedy match takes the longest
\* \s*, then the longest \d+
InvNumAt(text, p) ==
    IF ~LitAt(text, p, <<"I", "N", "V">>) THEN NoMatch
    ELSE LET cands == { sd \in (0..SpaceRun(text, p + 3)) \X (1..Len(text)) :
                           sd[2] <= DigitRun(text, p + 3 + sd[1]) }
         IN  IF cands = {} THEN NoMatch
             ELSE LET s == SetMax({ sd[1] : sd \in cands })
                      d == SetMax({ sd[2] : sd \in { c \in cands : c[1] = s } })
                  IN  Match(text, p, 3 + s + d)

\* \d{n}
DigitsAt(text, p, n) == \A i \in 0..(n - 1) : IsDigit(At(text, p + i))
\* [/-]
SepAt(text, p) == At(text, p) \in {"/", "-"}

\* (\d{2}[/-]\d{2}[/-]\d{4}|\d{4}[/-]\d{2}[/-]\d{2}) tried at position p
DateAt(text, p) ==
    IF /\ DigitsAt(text, p, 2) /\ SepAt(text, p + 2) /\ DigitsAt(text, p + 3, 2)
       /\ SepAt(text, p + 5) /\ DigitsAt(text, p + 6, 4)
    THEN Match(text, p, 10)
    ELSE IF /\ DigitsAt(text, p, 4) /\ SepAt(text, p + 4) /\ DigitsAt(text, p + 5, 2)
            /\ SepAt(text, p + 7) /\ DigitsAt(text, p + 8, 2)
    THEN Match(text, p, 10)
    ELSE NoMatch

\* Total[^\d]*(\d+[.,]\d{2}), icase, tried at position p: n characters for
\* [^\d]*, d digits for \d+, then one of . , and exactly two more digits;
\* the capture is the group only
TotalAt(text, p) ==
    IF ~LitAt(text, p, <<"T", "o", "t", "a", "l">>) THEN NoMatch
    ELSE LET cands == { nd \in (0..NonDigitRun(text, p + 5)) \X (1..Len(text)) :
                           /\ nd[2] <= DigitRun(text, p + 5 + nd[1])
                           /\ At(text, p + 5 + nd[1] + nd[2]) \in {".", ","}
                           /\ DigitsAt(text, p + 5 + nd[1] + nd[2] + 1, 2) }
         IN  IF cands = {} THEN NoMatch
             ELSE LET n == SetMax({ nd[1] : nd \in cands })
                      d == SetMax({ nd[2] : nd \in { c \in cands : c[1] = n } })
                  IN  Match(text, p + 5 + n, d + 3)

\* std::regex_search: the match at the leftmost position that has one
InvNumSearch(text) ==
    LET ps == { p \in 1..Len(text) : InvNumAt(text, p).found }
    IN  IF ps = {} THEN NoMatch ELSE InvNumAt(text, SetMin(ps))
DateSearch(text) ==
    LET ps == { p \in 1..Len(text) : DateAt(text, p).found }
    IN  IF ps = {} THEN NoMatch ELSE DateAt(text, SetMin(ps))
TotalSearch(text) ==
    LET ps == { p \in 1..Len(text) : TotalAt(text, p).found }
    IN  IF ps = {} THEN NoMatch ELSE TotalAt(text, SetMin(ps))

FieldNames == {"invoice_number", "date", "total"}

\* extract_invoice_fields with fields[k] assigned for every key, matched or not
extract_invoice_fields_emptyForMissing(ocr_text) ==
    LET m == [k \in FieldNames |->
                 CASE k = "invoice_number" -> InvNumSearch(ocr_text)
                   [] k = "date" -> DateSearch(ocr_text)
                   [] k = "total" -> TotalSearch(ocr_text)]
    IN  [k \in FieldNames |-> m[k].str]

\* extract_invoice_fields: a key is present exactly when its pattern matched
extract_invoice_fields(ocr_text) ==
    LET m == [k \in FieldNames |->
                 CASE k = "invoice_number" -> InvNumSearch(ocr_text)
                   [] k = "date" -> DateSearch(ocr_text)
                   [] k = "total" -> TotalSearch(ocr_text)]
    IN  [k \in { f \in FieldNames : m[f].found } |-> m[k].str]

\* the lines of the recognized texts
InvLines == {
    <<"I","n","v","o","i","c","e"," ","N","u","m","b","e","r",":"," ","I","N","V","1","2","3","4","5">>,
    <<"i","n","v"," "," ","7","7">>,
    <<"I","n","v","o","i","c","e"," ","1","2">>,
    <<"I","N","V","-","9">>,
    <<>> }
DateLines == {
    <<"D","a","t","e",":"," ","2","0","2","3","-","0","5","-","1","2">>,
    <<"D","a","t","e",":"," ","1","2","/","0","5","/","2","0","2","3">>,
    <<"D","a","t","e",":"," ","2","0","2","3","-","5","-","1","2">>,
    <<"1","2","-","0","5","-","2","0","2","3","-","0","6">>,
    <<>> }
TotalLines == {
    <<"T","o","t","a","l",":"," ","$","1",",","2","3","4",".","5","6">>,
    <<"T","o","t","a","l",":"," ","2","3","4",".","5","6">>,
    <<"T","O","T","A","L"," ","1","2",",","5">>,
    <<"T","o","t","a","l",":"," ","1","2","3","4">>,
    <<"S","u","b","t","o","t","a","l",":"," ","1","0",".","0","0","\n",
      "T","o","t","a","l",":"," ","2","0",".","0","0">>,
    <<>> }

OcrTexts == { i \o <<"\n">> \o d \o <<"\n">> \o t :
                i \in InvLines, d \in DateLines, t \in TotalLines }

\* the sample of test_invoice_field_extraction
SampleText ==
    <<"I","n","v","o","i","c","e"," ","N","u","m","b","e","r",":"," ","I","N","V","1","2","3","4","5">>
    \o <<"\n">> \o <<"D","a","t","e",":"," ","2","0","2","3","-","0","5","-","1","2">>
    \o <<"\n">> \o <<"T","o","t","a","l",":"," ","$","1",",","2","3","4",".","5","6">>

NoFieldCall == [text |-> <<>>, called |-> FALSE, fields |-> [k \in {} |-> <<>>]]

\* the caller holds the recognized text fieldCall.text and extracts its fields
CallExtractFields ==
    /\ ~fieldCall.called
    /\ fieldCall' = [text |-> fieldCall.text, called |-> TRUE,
                     fields |-> extract_invoice_fields(fieldCall.text)]
    /\ UNCHANGED <<segCall, lvars, ovars>>
    /\ UNCHANGED <<hvars, bvars, dvars>>

\* no segmentation or field extraction call has been made
FIdle ==
    /\ segCall = NoSegCall
    /\ fieldCall = NoFieldCall
    /\ LIdle
    /\ OIdle

(***************************************************************************)
(* Recognition images and the Tesseract engine.  An image is valid when it *)
(* is non-empty and single-channel; text is what the engine reads in it    *)
(* ("null": GetUTF8Text returns a null pointer).                           *)
(***************************************************************************)
RecImages == { [valid |-> TRUE, text |-> "A"], [valid |-> TRUE, text |-> "B"],
               [valid |-> TRUE, text |-> "null"], [valid |-> FALSE, text |-> ""] }

\* MeanTextConf() of the page just recognized, in percent
MeanTextConf(text) == IF text = "A" THEN 90 ELSE IF text = "B" THEN 80 ELSE 0

NoLocal == [boxes |-> <<>>, ok |-> FALSE, text |-> "", conf |-> 0, err |-> ""]

\* std::vector::resize(n): keeps the first n elements, appends defaults
Resize(seq, n, fill) == [i \in 1..n |-> IF i <= Len(seq) THEN seq[i] ELSE fill]

\* the element of the pre-sized output vectors that iteration i assigns
SlotOfCompletion(i, ndone) == ndone + 1
SlotOf(i, ndone) == i

\* the number of iterations that have completed
NDone == Cardinality({ j \in 1..Len(imgs) : ipc[j] = "done" })

BIdle ==
    /\ bphase = "idle"
    /\ imgs = <<>>
    /\ ipc = <<>>
    /\ loc = <<>>
    /\ results = <<>>
    /\ out_texts = <<>>
    /\ out_confidences = <<>>
    /\ out_errors = <<>>
    /\ all_ok = TRUE
    /\ tess = [image |-> 0, recognized |-> 0]
    /\ writes = {}
    /\ finished = <<>>
    /\ seg_timing = ""
    /\ rec_timing = ""

HIdle ==
    /\ tesseract_available = HybridPreprocessorCtor(FALSE)
    /\ g_tesseract_timing = ""
    /\ lastCall = NoCall
    /\ primaryFailures = 0
    /\ pc = "idle"
    /\ cur = EmptyImg
    /\ trace = <<>>

\* a batch call is made with the caller's fresh vectors
BatchIdle == bphase = "idle"

BatchInputs(pool) == UNION { [1..n -> pool] : n \in 0..MaxBatch }

\* what the caller's out_errors vector holds when it is passed in
CallerErrors == { <<>>, [i \in 1..(MaxBatch + 1) |-> "stale"] }

\* Segmenter::segment_batch up to the parallel loop
SegBatchStart(in, errs) ==
    /\ BatchIdle
    /\ bphase' = "seg"
    /\ imgs' = in
    /\ ipc' = [i \in 1..Len(in) |-> "todo"]
    /\ loc' = [i \in 1..Len(in) |-> NoLocal]
    /\ results' = [i \in 1..Len(in) |-> <<>>]
    /\ out_errors' = Resize(errs, Len(in), "")
    /\ writes' = {}
    /\ finished' = <<>>
    /\ UNCHANGED <<out_texts, out_confidences, all_ok, tess, seg_timing, rec_timing>>
    /\ UNCHANGED hvars
    /\ UNCHANGED dvars
    /\ UNCHANGED fvars

\* iteration i: std::string err; results[i] = segment_lines(imgs[i], err);
SegAssignResult(i) ==
    /\ bphase = "seg"
    /\ ipc[i] = "todo"
    /\ LET r == segment_lines(imgs[i])
           k == SlotOf(i, NDone)
       IN /\ loc' = [loc EXCEPT ![i] = [NoLocal EXCEPT !.boxes = r.boxes, !.err = r.err]]
          /\ results' = [results EXCEPT ![k] = r.boxes]
          /\ writes' = writes \cup {<<i, "results", k>>}
    /\ ipc' = [ipc EXCEPT ![i] = "assigned"]
    /\ UNCHANGED <<bphase, imgs, out_texts, out_confidences, out_errors, all_ok,
                   tess, finished, seg_timing, rec_timing>>
    /\ UNCHANGED hvars
    /\ UNCHANGED dvars
    /\ UNCHANGED fvars

\* iteration i: out_errors[i] = err;
SegAssignError(i) ==
    /\ bphase = "seg"
    /\ ipc[i] = "assigned"
    /\ LET k == SlotOf(i, NDone)
       IN /\ out_errors' = [out_errors EXCEPT ![k] = loc[i].err]
          /\ writes' = writes \cup {<<i, "out_errors", k>>}
    /\ ipc' = [ipc EXCEPT ![i] = "done"]
    /\ finished' = Append(finished, i)
    /\ loc' = [loc EXCEPT ![i] = NoLocal]
    /\ UNCHANGED <<bphase, imgs, results, out_texts, out_confidences, all_ok,
                   tess, seg_timing, rec_timing>>
    /\ UNCHANGED hvars
    /\ UNCHANGED dvars
    /\ UNCHANGED fvars

\* after the loop: the timing is recorded and results returned
SegBatchReturn ==
    /\ bphase = "seg"
    /\ \A i \in 1..Len(imgs) : ipc[i] = "done"
    /\ bphase' = "seg_returned"
    /\ seg_timing' = "segment_batch"
    /\ UNCHANGED <<imgs, ipc, loc, results, out_texts, out_confidences, out_errors,
                   all_ok, tess, writes, finished, rec_timing>>
    /\ UNCHANGED hvars
    /\ UNCHANGED dvars
    /\ UNCHANGED fvars

(***************************************************************************)
(* OcrRecognizer::recognize_batch.  Every iteration calls recognize on the *)
(* one engine tess_: SetImage, GetUTF8Text, MeanTextConf.  An engine call  *)
(* made while another iteration is using the engine is a data race: its    *)
(* result is any value the engine can produce for an image of the batch.   *)
(***************************************************************************)
InEngine(i) == ipc[i] \in {"set", "got"}
Raced(i) == \E j \in 1..Len(imgs) : j # i /\ InEngine(j)

EngineTexts == { imgs[j].text : j \in { k \in 1..Len(imgs) : imgs[k].valid } }

\* ocr_recognize_batch passes three fresh vectors (texts, confs, errors);
\* recognize_batch resizes them to the number of images.
RecBatchStart(in) ==
    /\ BatchIdle
    /\ bphase' = "rec"
    /\ imgs' = in
    /\ ipc' = [i \in 1..Len(in) |-> "todo"]
    /\ loc' = [i \in 1..Len(in) |-> NoLocal]
    /\ out_texts' = Resize(<<>>, Len(in), "")
    /\ out_confidences' = Resize(<<>>, Len(in), 0)
    /\ out_errors' = Resize(<<>>, Len(in), "")
    /\ all_ok' = TRUE
    /\ tess' = [image |-> 0, recognized |-> 0]
    /\ writes' = {}
    /\ finished' = <<>>
    /\ UNCHANGED <<results, seg_timing, rec_timing>>
    /\ UNCHANGED hvars
    /\ UNCHANGED dvars
    /\ UNCHANGED fvars

\* recognize, lines 32-36: the argument check, then tess_->SetImage(...)
RecSetImage(i) ==
    /\ bphase = "rec"
    /\ ipc[i] = "todo"
    /\ IF ~imgs[i].valid
       THEN /\ loc' = [loc EXCEPT ![i] = [NoLocal EXCEPT
                          !.err = "Invalid recognizer or image (must be grayscale)"]]
            /\ ipc' = [ipc EXCEPT ![i] = "ret"]
            /\ UNCHANGED <<tess, writes>>
       ELSE /\ tess' = [tess EXCEPT !.image = i]
            /\ writes' = writes \cup {<<i, "tess_", 0>>}
            /\ ipc' = [ipc EXCEPT ![i] = "set"]
            /\ UNCHANGED loc
    /\ UNCHANGED <<bphase, imgs, results, out_texts, out_confidences, out_errors,
                   all_ok, finished, seg_timing, rec_timing>>
    /\ UNCHANGED hvars
    /\ UNCHANGED dvars
    /\ UNCHANGED fvars

\* recognize, lines 37-43: char* text = tess_->GetUTF8Text();
RecGetText(i) ==
    /\ bphase = "rec"
    /\ ipc[i] = "set"
    /\ \E t \in (IF Raced(i) \/ tess.image # i
                 THEN EngineTexts \cup {"null"} ELSE {imgs[i].text}) :
          IF t = "null"
          THEN /\ loc' = [loc EXCEPT ![i] = [NoLocal EXCEPT
                             !.err = "Tesseract failed to recognize text"]]
               /\ ipc' = [ipc EXCEPT ![i] = "ret"]
               /\ UNCHANGED tess
          ELSE /\ loc' = [loc EXCEPT ![i] = [NoLocal EXCEPT !.text = t]]
               /\ ipc' = [ipc EXCEPT ![i] = "got"]
               /\ tess' = [tess EXCEPT !.recognized = i]
    /\ writes' = writes \cup {<<i, "tess_", 0>>}
    /\ UNCHANGED <<bphase, imgs, results, out_texts, out_confidences, out_errors,
                   all_ok, finished, seg_timing, rec_timing>>
    /\ UNCHANGED hvars
    /\ UNCHANGED dvars
    /\ UNCHANGED fvars

\* recognize, lines 44-46: out_confidence = tess_->MeanTextConf() / 100.0;
RecMeanConf(i) ==
    /\ bphase = "rec"
    /\ ipc[i] = "got"
    /\ \E c \in (IF Raced(i) \/ tess.recognized # i
                 THEN { MeanTextConf(t) : t \in EngineTexts }
                 ELSE {MeanTextConf(loc[i].text)}) :
          loc' = [loc EXCEPT ![i] = [@ EXCEPT !.conf = c, !.ok = TRUE]]
    /\ ipc' = [ipc EXCEPT ![i] = "ret"]
    /\ UNCHANGED <<bphase, imgs, results, out_texts, out_confidences, out_errors,
                   all_ok, tess, writes, finished, seg_timing, rec_timing>>
    /\ UNCHANGED hvars
    /\ UNCHANGED dvars
    /\ UNCHANGED fvars

\* the iteration's stores as they would be with `all_ok = ok;`
RecStore_lastResultWins(i) ==
    /\ bphase = "rec"
    /\ ipc[i] = "ret"
    /\ LET k == SlotOf(i, NDone)
       IN /\ out_texts' = [out_texts EXCEPT ![k] = loc[i].text]
          /\ out_confidences' = [out_confidences EXCEPT ![k] = loc[i].conf]
          /\ out_errors' = [out_errors EXCEPT ![k] = loc[i].err]
          /\ writes' = writes
                \cup {<<i, "out_texts", k>>, <<i, "out_confidences", k>>,
                      <<i, "out_errors", k>>}
                \cup (IF loc[i].ok THEN {} ELSE {<<i, "all_ok", 0>>})
    /\ all_ok' = loc[i].ok
    /\ ipc' = [ipc EXCEPT ![i] = "done"]
    /\ loc' = [loc EXCEPT ![i] = NoLocal]
    /\ UNCHANGED <<bphase, imgs, results, tess, finished, seg_timing, rec_timing>>
    /\ UNCHANGED hvars
    /\ UNCHANGED dvars
    /\ UNCHANGED fvars

\* recognize_batch, lines 60-63: the iteration stores its locals
RecStore(i) ==
    /\ bphase = "rec"
    /\ ipc[i] = "ret"
    /\ LET k == SlotOf(i, NDone)
       IN /\ out_texts' = [out_texts EXCEPT ![k] = loc[i].text]
          /\ out_confidences' = [out_confidences EXCEPT ![k] = loc[i].conf]
          /\ out_errors' = [out_errors EXCEPT ![k] = loc[i].err]
          /\ writes' = writes
                \cup {<<i, "out_texts", k>>, <<i, "out_confidences", k>>,
                      <<i, "out_errors", k>>}
                \cup (IF loc[i].ok THEN {} ELSE {<<i, "all_ok", 0>>})
    /\ all_ok' = IF loc[i].ok THEN all_ok ELSE FALSE
    /\ ipc' = [ipc EXCEPT ![i] = "done"]
    /\ loc' = [loc EXCEPT ![i] = NoLocal]
    /\ UNCHANGED <<bphase, imgs, results, tess, finished, seg_timing, rec_timing>>
    /\ UNCHANGED hvars
    /\ UNCHANGED dvars
    /\ UNCHANGED fvars

\* ocr_recognize_batch (recognition_c_api.cpp) called with a batch that holds
\* a malformed image (null buffer, non-positive size, channels != 1): the
\* loop that builds the cv::Mat vector returns 2 at its index, with all three
\* output arrays null, before recognize_batch is called.
OcrBatchRejected(in) ==
    /\ BatchIdle
    /\ \E i \in 1..Len(in) : ~in[i].valid
    /\ bphase' = "api_rejected"
    /\ imgs' = in
    /\ out_texts' = <<>>
    /\ out_confidences' = <<>>
    /\ out_errors' = <<>>
    /\ rec_last_error' = [text |-> "Invalid image in batch at index <i>", by |-> 0]
    /\ UNCHANGED <<ipc, loc, results, all_ok, tess, writes, finished, seg_timing,
                   rec_timing>>
    /\ UNCHANGED <<pre_last_error, seg_last_error, pp_last_timing, seg_api_timing,
                   rec_api_timing, timing_str, ncall, lastApi, lastTimed, lastRead,
                   outp>>
    /\ UNCHANGED hvars
    /\ UNCHANGED fvars

\* recognize_batch, lines 65-68
RecBatchReturn ==
    /\ bphase = "rec"
    /\ \A i \in 1..Len(imgs) : ipc[i] = "done"
    /\ bphase' = "rec_returned"
    /\ rec_timing' = "recognize_batch"
    /\ UNCHANGED <<imgs, ipc, loc, results, out_texts, out_confidences, out_errors,
                   all_ok, tess, writes, finished, seg_timing>>
    /\ UNCHANGED hvars
    /\ UNCHANGED dvars
    /\ UNCHANGED fvars

(***************************************************************************)
(* The flat C API and its diagnostics, called by one thread.  Each of the  *)
(* three API files has its own thread_local g_last_error, and each of      *)
(* preprocessing.cpp, segmentation.cpp, recognition.cpp,                   *)
(* segmentation_c_api.cpp and recognition_c_api.cpp its own g_last_timing. *)
(* A slot holds the text and `by`, the number of the call that wrote it.   *)
(* The data a call computes is modelled under Spec and SpecBatch; here a   *)
(* call is its outcome, its return code and what it does to the slots and  *)
(* to the caller's output arguments.                                       *)
(***************************************************************************)
OWLIN_PREPROCESS_SUCCESS == 0
OWLIN_PREPROCESS_ERR_UNKNOWN == 1
OWLIN_PREPROCESS_ERR_MEMORY == 3
OWLIN_PREPROCESS_ERR_INVALID_ARG == 4
OWLIN_PREPROCESS_ERR_OPENCV == 5

NoSlot == [text |-> "", by |-> 0]
Slot(text, id) == [text |-> text, by |-> id]

\* The caller's output arguments across a preprocess call.  `before` is what
\* *out_buffer held when the call was made (a null pointer, or the stale
\* address of an earlier buffer), `buffer` what it holds at return ("new": a
\* buffer allocated by this call); dims is "caller" while *width, *height,
\* *channels hold the caller's values and "result" once they hold the
\* dimensions of the non-empty result; args and outcome say how the call went.
CallerBuffers == {"null", "stale"}

\* args: all arguments valid; an invalid input argument (null filepath or
\* input buffer, non-positive input size) with non-null output pointers; a
\* null output pointer
ArgKinds == {"ok", "bad_input", "null_output"}

PreOut(args, before, outcome, buffer, dims) ==
    [buffer |-> buffer, dims |-> dims, before |-> before, args |-> args,
     outcome |-> outcome]

\* the output arguments when the most recent call is not a preprocess call
CallerOut == PreOut("none", "caller", "none", "caller", "caller")

NoApi == [name |-> "none", unit |-> "none", ret |-> 0, id |-> 0]
NoRead == [unit |-> "none", value |-> NoSlot, latest |-> 0, latestOk |-> FALSE]

DIdle ==
    /\ pre_last_error = NoSlot
    /\ seg_last_error = NoSlot
    /\ rec_last_error = NoSlot
    /\ pp_last_timing = NoSlot
    /\ seg_api_timing = NoSlot
    /\ rec_api_timing = NoSlot
    /\ timing_str = [init |-> FALSE, val |-> NoSlot]
    /\ ncall = 0
    /\ lastApi = NoApi
    /\ lastTimed = [pre |-> NoApi, seg |-> NoApi, rec |-> NoApi]
    /\ lastRead = NoRead
    /\ outp = CallerOut

\* preprocess_c_api.cpp set_error
set_error(text, id) == Slot(text, id)

\* the same, as it would be if an empty result were reported with the code
\* of the catch block
finish_preprocess_emptyAsUnknown(outcome, emptyMsg, err, id) ==
    IF outcome = "empty_result"
    THEN [ret |-> OWLIN_PREPROCESS_ERR_UNKNOWN, err |-> set_error(emptyMsg, id),
          out |-> [buffer |-> "null", dims |-> "caller"]]
    ELSE IF outcome = "no_memory"
    THEN [ret |-> OWLIN_PREPROCESS_ERR_MEMORY,
          err |-> set_error("Failed to allocate memory for image buffer", id),
          out |-> [buffer |-> "null", dims |-> "caller"]]
    ELSE [ret |-> OWLIN_PREPROCESS_SUCCESS, err |-> err,
          out |-> [buffer |-> "new", dims |-> "result"]]

\* the same, as it would be if the output dimensions were stored before the
\* buffer is allocated
finish_preprocess_dimsBeforeAlloc(outcome, emptyMsg, err, id) ==
    IF outcome = "empty_result"
    THEN [ret |-> OWLIN_PREPROCESS_ERR_OPENCV, err |-> set_error(emptyMsg, id),
          out |-> [buffer |-> "null", dims |-> "caller"]]
    ELSE IF outcome = "no_memory"
    THEN [ret |-> OWLIN_PREPROCESS_ERR_MEMORY,
          err |-> set_error("Failed to allocate memory for image buffer", id),
          out |-> [buffer |-> "null", dims |-> "result"]]
    ELSE [ret |-> OWLIN_PREPROCESS_SUCCESS, err |-> err,
          out |-> [buffer |-> "new", dims |-> "result"]]

\* the result of one of the three preprocess entry points once the pipeline
\* has returned `result` (lines 57-74, 94-111, 144-161): code, error slot,
\* output arguments.  Success leaves g_last_error as it was.
finish_preprocess(outcome, emptyMsg, err, id) ==
    IF outcome = "empty_result"
    THEN [ret |-> OWLIN_PREPROCESS_ERR_OPENCV, err |-> set_error(emptyMsg, id),
          out |-> [buffer |-> "null", dims |-> "caller"]]
    ELSE IF outcome = "no_memory"
    THEN [ret |-> OWLIN_PREPROCESS_ERR_MEMORY,
          err |-> set_error("Failed to allocate memory for image buffer", id),
          out |-> [buffer |-> "null", dims |-> "caller"]]
    ELSE [ret |-> OWLIN_PREPROCESS_SUCCESS, err |-> err,
          out |-> [buffer |-> "new", dims |-> "result"]]

PreOutcomes == {"ok", "load_fail", "cv_throw", "empty_result", "no_memory"}

CanCall == ncall < MaxApiCalls

\* what every top-level call records about itself
Called_(name, unit, ret) ==
    /\ ncall' = ncall + 1
    /\ lastApi' = [name |-> name, unit |-> unit, ret |-> ret, id |-> ncall + 1]

Timed(unit, name, ret) ==
    lastTimed' = [lastTimed EXCEPT
                    ![unit] = [name |-> name, unit |-> unit, ret |-> ret,
                               id |-> ncall + 1]]

DiagFrame ==
    /\ UNCHANGED <<tesseract_available, lastCall, primaryFailures, pc, cur, trace>>
    /\ UNCHANGED <<bphase, imgs, ipc, loc, results, out_texts, out_confidences,
                   out_errors, all_ok, tess, writes, finished>>
    /\ UNCHANGED <<seg_api_timing, rec_api_timing>>
    /\ UNCHANGED fvars

\* preprocess_image (preprocess_c_api.cpp) with preprocess_pipeline
\* (preprocessing.cpp): the pipeline records its timing only when it returns.
preprocess_image(args, before, outcome) ==
    /\ CanCall
    /\ LET id == ncall + 1
           f == finish_preprocess(outcome, "Preprocessing failed - empty result",
                                  pre_last_error, id)
       IN  IF args # "ok"
           THEN /\ pre_last_error' = set_error("Invalid arguments to preprocess_image", id)
                /\ outp' = PreOut(args, before, "invalid_arg", before, "caller")
                /\ Called_("preprocess_image", "pre", OWLIN_PREPROCESS_ERR_INVALID_ARG)
                /\ Timed("pre", "preprocess_image", OWLIN_PREPROCESS_ERR_INVALID_ARG)
                /\ UNCHANGED pp_last_timing
           ELSE IF outcome \in {"load_fail", "cv_throw"}
           THEN /\ pre_last_error' = set_error(
                       IF outcome = "load_fail"
                       THEN "Preprocessing failed: Failed to load image: <path>"
                       ELSE "Preprocessing failed: <cv::Exception>", id)
                /\ outp' = PreOut(args, before, outcome, "null", "caller")
                /\ Called_("preprocess_image", "pre", OWLIN_PREPROCESS_ERR_UNKNOWN)
                /\ Timed("pre", "preprocess_image", OWLIN_PREPROCESS_ERR_UNKNOWN)
                /\ UNCHANGED pp_last_timing
           ELSE /\ pp_last_timing' = Slot("preprocess_pipeline", id)
                /\ pre_last_error' = f.err
                /\ outp' = PreOut(args, before, outcome, f.out.buffer, f.out.dims)
                /\ Called_("preprocess_image", "pre", f.ret)
                /\ Timed("pre", "preprocess_image", f.ret)
    /\ UNCHANGED <<seg_last_error, rec_last_error, timing_str, lastRead,
                   g_tesseract_timing, seg_timing, rec_timing>>
    /\ DiagFrame

\* enhanced_preprocess_image (C API) with enhanced_preprocess_pipeline(path):
\* load_image, enhanced_preprocess_image(img) (grayscale, resize, the hybrid
\* pipeline, which writes g_tesseract_timing), then g_last_timing.
enhanced_preprocess_image(args, before, outcome) ==
    /\ CanCall
    /\ LET id == ncall + 1
           f == finish_preprocess(outcome, "Enhanced preprocessing failed - empty result",
                                  pre_last_error, id)
       IN  IF args # "ok"
           THEN /\ pre_last_error' = set_error("Invalid arguments to enhanced_preprocess_image", id)
                /\ outp' = PreOut(args, before, "invalid_arg", before, "caller")
                /\ Called_("enhanced_preprocess_image", "pre", OWLIN_PREPROCESS_ERR_INVALID_ARG)
                /\ Timed("pre", "enhanced_preprocess_image", OWLIN_PREPROCESS_ERR_INVALID_ARG)
                /\ UNCHANGED <<pp_last_timing, g_tesseract_timing>>
           ELSE IF outcome \in {"load_fail", "cv_throw"}
           THEN /\ pre_last_error' = set_error(
                       IF outcome = "load_fail"
                       THEN "Enhanced preprocessing failed: Failed to load image: <path>"
                       ELSE "Enhanced preprocessing failed: <cv::Exception>", id)
                /\ outp' = PreOut(args, before, outcome, "null", "caller")
                /\ Called_("enhanced_preprocess_image", "pre", OWLIN_PREPROCESS_ERR_UNKNOWN)
                /\ Timed("pre", "enhanced_preprocess_image", OWLIN_PREPROCESS_ERR_UNKNOWN)
                /\ UNCHANGED <<pp_last_timing, g_tesseract_timing>>
           ELSE /\ g_tesseract_timing' = "enhanced_preprocess_pipeline"
                /\ pp_last_timing' = Slot("enhanced_preprocess_pipeline", id)
                /\ pre_last_error' = f.err
                /\ outp' = PreOut(args, before, outcome, f.out.buffer, f.out.dims)
                /\ Called_("enhanced_preprocess_image", "pre", f.ret)
                /\ Timed("pre", "enhanced_preprocess_image", f.ret)
    /\ UNCHANGED <<seg_last_error, rec_last_error, timing_str, lastRead,
                   seg_timing, rec_timing>>
    /\ DiagFrame

\* enhanced_preprocess_buffer: no file is loaded, and the namespace function
\* enhanced_preprocess_image(img) it calls does not write g_last_timing.
enhanced_preprocess_buffer(args, before, channels, outcome) ==
    /\ CanCall
    /\ outcome # "load_fail"
    /\ LET id == ncall + 1
           f == finish_preprocess(outcome, "Enhanced preprocessing failed - empty result",
                                  pre_last_error, id)
       IN  IF args # "ok"
           THEN /\ pre_last_error' = set_error("Invalid arguments to enhanced_preprocess_buffer", id)
                /\ outp' = PreOut(args, before, "invalid_arg", before, "caller")
                /\ Called_("enhanced_preprocess_buffer", "pre", OWLIN_PREPROCESS_ERR_INVALID_ARG)
                /\ Timed("pre", "enhanced_preprocess_buffer", OWLIN_PREPROCESS_ERR_INVALID_ARG)
                /\ UNCHANGED g_tesseract_timing
           ELSE IF channels \notin {1, 3}
           THEN /\ pre_last_error' = set_error("Unsupported number of input channels", id)
                /\ outp' = PreOut(args, before, "bad_channels", "null", "caller")
                /\ Called_("enhanced_preprocess_buffer", "pre", OWLIN_PREPROCESS_ERR_INVALID_ARG)
                /\ Timed("pre", "enhanced_preprocess_buffer", OWLIN_PREPROCESS_ERR_INVALID_ARG)
                /\ UNCHANGED g_tesseract_timing
           ELSE IF outcome = "cv_throw"
           THEN /\ pre_last_error' = set_error("Enhanced buffer preprocessing failed: <cv::Exception>", id)
                /\ outp' = PreOut(args, before, outcome, "null", "caller")
                /\ Called_("enhanced_preprocess_buffer", "pre", OWLIN_PREPROCESS_ERR_UNKNOWN)
                /\ Timed("pre", "enhanced_preprocess_buffer", OWLIN_PREPROCESS_ERR_UNKNOWN)
                /\ UNCHANGED g_tesseract_timing
           ELSE /\ g_tesseract_timing' = "enhanced_preprocess_pipeline"
                /\ pre_last_error' = f.err
                /\ outp' = PreOut(args, before, outcome, f.out.buffer, f.out.dims)
                /\ Called_("enhanced_preprocess_buffer", "pre", f.ret)
                /\ Timed("pre", "enhanced_preprocess_buffer", f.ret)
    /\ UNCHANGED <<pp_last_timing, seg_last_error, rec_last_error, timing_str,
                   lastRead, seg_timing, rec_timing>>
    /\ DiagFrame

\* the images the C API segment_lines accepts: width > 0, height > 0,
\* channels == 1
ApiSegImages == { img \in SegImages : ~SegMalformed(img) }

\* segment_lines of segmentation_c_api.cpp, lines 45-68: the error slot after
\* a call whose arguments are valid and in which nothing throws
seg_api_result(img, err, id) ==
    LET r == segment_lines(img)
    IN  IF r.err # "" THEN [ret |-> 2, err |-> Slot(r.err, id)]
        ELSE IF r.boxes = <<>> THEN [ret |-> 0, err |-> err]
        ELSE [ret |-> 0, err |-> NoSlot]

api_segment_lines(argsOk, img, throws) ==
    /\ CanCall
    /\ LET id == ncall + 1
           r == seg_api_result(img, seg_last_error, id)
       IN  IF ~argsOk
           THEN /\ seg_last_error' = Slot("Invalid arguments to segment_lines", id)
                /\ Called_("segment_lines", "seg", 1)
           ELSE IF throws
           THEN /\ seg_last_error' = Slot("<exception>", id)
                /\ Called_("segment_lines", "seg", 3)
           ELSE /\ seg_last_error' = r.err
                /\ Called_("segment_lines", "seg", r.ret)
    /\ outp' = CallerOut
    /\ UNCHANGED <<pre_last_error, rec_last_error, pp_last_timing, timing_str,
                   lastTimed, lastRead, g_tesseract_timing, seg_timing, rec_timing>>
    /\ DiagFrame

\* Segmenter::segment_batch: writes the g_last_timing of segmentation.cpp
call_segment_batch ==
    /\ CanCall
    /\ seg_timing' = "segment_batch"
    /\ Called_("segment_batch", "seg", 0)
    /\ Timed("seg", "segment_batch", 0)
    /\ outp' = CallerOut
    /\ UNCHANGED <<pre_last_error, seg_last_error, rec_last_error, pp_last_timing,
                   timing_str, lastRead, g_tesseract_timing, rec_timing>>
    /\ DiagFrame

\* ocr_recognize
ocr_recognize(argsOk, outcome) ==
    /\ CanCall
    /\ outcome \in {"ok", "rec_fail", "throw"}
    /\ LET id == ncall + 1
       IN  IF ~argsOk
           THEN /\ rec_last_error' = Slot("Invalid arguments to ocr_recognize", id)
                /\ Called_("ocr_recognize", "rec", 1)
           ELSE IF outcome = "rec_fail"
           THEN /\ rec_last_error' = Slot("Tesseract failed to recognize text", id)
                /\ Called_("ocr_recognize", "rec", 2)
           ELSE IF outcome = "throw"
           THEN /\ rec_last_error' = Slot("<exception>", id)
                /\ Called_("ocr_recognize", "rec", 3)
           ELSE /\ rec_last_error' = NoSlot
                /\ Called_("ocr_recognize", "rec", 0)
    /\ outp' = CallerOut
    /\ UNCHANGED <<pre_last_error, seg_last_error, pp_last_timing, timing_str,
                   lastTimed, lastRead, g_tesseract_timing, seg_timing, rec_timing>>
    /\ DiagFrame

\* ocr_recognize_batch with OcrRecognizer::recognize_batch, which writes the
\* g_last_timing of recognition.cpp
ocr_recognize_batch(argsOk, outcome) ==
    /\ CanCall
    /\ outcome \in {"ok", "some_failed", "invalid_image", "throw"}
    /\ LET id == ncall + 1
       IN  IF ~argsOk
           THEN /\ rec_last_error' = Slot("Invalid arguments to ocr_recognize_batch", id)
                /\ Called_("ocr_recognize_batch", "rec", 1)
                /\ Timed("rec", "ocr_recognize_batch", 1)
                /\ UNCHANGED rec_timing
           ELSE IF outcome = "invalid_image"
           THEN /\ rec_last_error' = Slot("Invalid image in batch at index <i>", id)
                /\ Called_("ocr_recognize_batch", "rec", 2)
                /\ Timed("rec", "ocr_recognize_batch", 2)
                /\ UNCHANGED rec_timing
           ELSE IF outcome = "throw"
           THEN /\ rec_last_error' = Slot("<exception>", id)
                /\ Called_("ocr_recognize_batch", "rec", 4)
                /\ Timed("rec", "ocr_recognize_batch", 4)
                /\ UNCHANGED rec_timing
           ELSE /\ rec_timing' = "recognize_batch"
                /\ rec_last_error' = NoSlot
                /\ Called_("ocr_recognize_batch", "rec", IF outcome = "ok" THEN 0 ELSE 3)
                /\ Timed("rec", "ocr_recognize_batch", IF outcome = "ok" THEN 0 ELSE 3)
    /\ outp' = CallerOut
    /\ UNCHANGED <<pre_last_error, seg_last_error, pp_last_timing, timing_str,
                   lastRead, g_tesseract_timing, seg_timing>>
    /\ DiagFrame

\* owlin_get_last_error of each API file returns that file's g_last_error
owlin_get_last_error(unit) ==
    CASE unit = "pre" -> pre_last_error
      [] unit = "seg" -> seg_last_error
      [] unit = "rec" -> rec_last_error
      [] OTHER -> NoSlot

\* get_tesseract_timing (preprocessing.cpp): returns g_last_timing
get_tesseract_timing == pp_last_timing

\* get_preprocessing_timing: `static std::string timing_str = ...` is
\* initialised by the first call only
static_timing_str(ts, now) == IF ts.init THEN ts ELSE [init |-> TRUE, val |-> now]

ReadFrame ==
    /\ UNCHANGED <<pre_last_error, seg_last_error, rec_last_error, pp_last_timing,
                   ncall, lastApi, lastTimed, outp, g_tesseract_timing,
                   seg_timing, rec_timing>>
    /\ DiagFrame

get_preprocessing_timing ==
    /\ timing_str' = static_timing_str(timing_str, get_tesseract_timing)
    /\ lastRead' = [unit |-> "pre", value |-> timing_str'.val,
                    latest |-> lastTimed.pre.id, latestOk |-> lastTimed.pre.ret = 0]
    /\ ReadFrame

\* segmenter_get_last_timing: the g_last_timing of segmentation_c_api.cpp
segmenter_get_last_timing ==
    /\ lastRead' = [unit |-> "seg", value |-> seg_api_timing,
                    latest |-> lastTimed.seg.id, latestOk |-> lastTimed.seg.ret = 0]
    /\ UNCHANGED timing_str
    /\ ReadFrame

\* ocr_get_last_timing: the g_last_timing of recognition_c_api.cpp
ocr_get_last_timing ==
    /\ lastRead' = [unit |-> "rec", value |-> rec_api_timing,
                    latest |-> lastTimed.rec.id, latestOk |-> lastTimed.rec.ret = 0]
    /\ UNCHANGED timing_str
    /\ ReadFrame

InitDiag == HIdle /\ BIdle /\ DIdle /\ FIdle

NextDiag ==
    \/ \E a \in ArgKinds, b \in CallerBuffers, o \in PreOutcomes :
          preprocess_image(a, b, o)
    \/ \E a \in ArgKinds, b \in CallerBuffers, o \in PreOutcomes :
          enhanced_preprocess_image(a, b, o)
    \/ \E a \in ArgKinds, b \in CallerBuffers, c \in {1, 3, 4}, o \in PreOutcomes :
          enhanced_preprocess_buffer(a, b, c, o)
    \/ \E a \in BOOLEAN, img \in ApiSegImages, t \in BOOLEAN : api_segment_lines(a, img, t)
    \/ call_segment_batch
    \/ \E a \in BOOLEAN, o \in {"ok", "rec_fail", "throw"} : ocr_recognize(a, o)
    \/ \E a \in BOOLEAN, o \in {"ok", "some_failed", "invalid_image", "throw"} :
          ocr_recognize_batch(a, o)
    \/ get_preprocessing_timing
    \/ segmenter_get_last_timing
    \/ ocr_get_last_timing

SpecDiag == InitDiag /\ [][NextDiag]_vars

(***************************************************************************)
(* Claims about the diagnostics slots (under SpecDiag).                    *)
(***************************************************************************)
\* C9: a timing accessor read after a timed top-level call of its component
\* returns the timing recorded by the most recent such call: not the value
\* of an earlier call and not the empty string.  (Stated for a most recent
\* call that succeeded.)
C9_TimingAccessorReturnsLatest ==
    (lastRead.unit # "none" /\ lastRead.latest > 0 /\ lastRead.latestOk) =>
        /\ lastRead.value.text # ""
        /\ lastRead.value.by = lastRead.latest

\* C10: after a top-level C API call that returns success, owlin_get_last_error
\* does not return the message of an earlier failed call.
C10_SuccessOverwritesLastError ==
    (lastApi.unit \in {"pre", "seg", "rec"} /\ lastApi.name # "segment_batch"
       /\ lastApi.ret = 0) =>
        LET e == owlin_get_last_error(lastApi.unit)
        IN  e.text = "" \/ e.by = lastApi.id

\* the words of the messages that report a file that could not be loaded:
\* "<prefix>" + ex.what(), where load_image throws
\* "Failed to load image: " + path
MessageWords(text) ==
    CASE text = "Preprocessing failed: Failed to load image: <path>" ->
            <<"Preprocessing", "failed:", "Failed", "to", "load", "image:", "<path>">>
      [] text = "Enhanced preprocessing failed: Failed to load image: <path>" ->
            <<"Enhanced", "preprocessing", "failed:", "Failed", "to", "load",
              "image:", "<path>">>
      [] OTHER -> <<text>>

\* std::string::find(pat) != npos, on words
ContainsWords(text, pat) ==
    LET ws == MessageWords(text)
    IN  \E i \in 1..(Len(ws) - Len(pat) + 1) : SubSeq(ws, i, i + Len(pat) - 1) = pat

PreNames == {"preprocess_image", "enhanced_preprocess_image",
             "enhanced_preprocess_buffer"}

\* the most recent call is a preprocess call, described by outp
LastPre == lastApi.name \in PreNames

\* the code a path-based preprocess call returns for an empty pipeline result
EmptyResultCode == finish_preprocess("empty_result", "", NoSlot, 0).ret

\* C16: when the source image cannot be loaded, preprocess_image and
\* enhanced_preprocess_image return a nonzero code different from the code
\* returned for an empty pipeline result, and in both cases *out_buffer is
\* null.
C16_LoadFailureCodeIsDistinct ==
    (lastApi.name \in {"preprocess_image", "enhanced_preprocess_image"}
       /\ outp.args = "ok") =>
        /\ outp.outcome = "load_fail" =>
              /\ lastApi.ret # 0
              /\ lastApi.ret # EmptyResultCode
              /\ outp.buffer = "null"
        /\ outp.outcome = "empty_result" =>
              /\ lastApi.ret = EmptyResultCode
              /\ lastApi.ret # 0
              /\ outp.buffer = "null"

\* C16 witness: enhanced_preprocess_image was called with a stale buffer
\* pointer and the file could not be loaded.
C16_Witness ==
    /\ lastApi.name = "enhanced_preprocess_image"
    /\ outp.args = "ok"
    /\ outp.outcome = "load_fail"
    /\ outp.before = "stale"
    /\ lastApi.ret = OWLIN_PREPROCESS_ERR_UNKNOWN

\* C17: after preprocess_image fails because the file does not exist, the
\* code is nonzero, *out_buffer is null and owlin_get_last_error returns a
\* message containing "not found".
C17_MissingFileSaysNotFound ==
    (lastApi.name = "preprocess_image" /\ outp.args = "ok"
       /\ outp.outcome = "load_fail") =>
        /\ lastApi.ret # 0
        /\ outp.buffer = "null"
        /\ ContainsWords(owlin_get_last_error("pre").text, <<"not", "found">>)

\* C18: whenever a preprocess entry point returns a nonzero code, the
\* caller's *width, *height, *channels and *out_buffer hold the values they
\* held before the call.
C18_FailureLeavesOutputsUntouched ==
    (LastPre /\ lastApi.ret # 0) =>
        /\ outp.dims = "caller"
        /\ outp.buffer = outp.before

\* C18 as amended: whenever a preprocess entry point returns a nonzero code,
\* the caller's *width, *height and *channels hold the values they held
\* before the call, and *out_buffer holds either its previous value or null.
C18_FailureLeavesDimsUntouched ==
    (LastPre /\ lastApi.ret # 0) =>
        /\ outp.dims = "caller"
        /\ outp.buffer \in {outp.before, "null"}

\* C18 witness: a preprocess call with valid arguments failed when the
\* caller's buffer pointer held a stale address; the pointer is null now.
C18_Witness ==
    /\ LastPre
    /\ lastApi.ret # 0
    /\ outp.args = "ok"
    /\ outp.before = "stale"
    /\ outp.buffer = "null"
    /\ outp.dims = "caller"

\* C19: for a preprocess entry point called with non-null output pointers,
\* the return code is 0 exactly when *out_buffer is a newly allocated buffer
\* and *width, *height, *channels are the dimensions of the result, and on
\* every nonzero return *out_buffer is null.
C19_ZeroIffBufferReturned ==
    (LastPre /\ outp.args \in {"ok", "bad_input"}) =>
        /\ lastApi.ret = 0 <=> (outp.buffer = "new" /\ outp.dims = "result")
        /\ lastApi.ret # 0 => outp.buffer = "null"

InitBatch == HIdle /\ BIdle /\ DIdle /\ FIdle

NextBatch ==
    \/ \E in \in BatchInputs(SegImages), errs \in CallerErrors : SegBatchStart(in, errs)
    \/ \E i \in 1..Len(imgs) : SegAssignResult(i)
    \/ \E i \in 1..Len(imgs) : SegAssignError(i)
    \/ SegBatchReturn
    \/ \E in \in BatchInputs(RecImages) : RecBatchStart(in)
    \/ \E in \in BatchInputs(RecImages) : OcrBatchRejected(in)
    \/ \E i \in 1..Len(imgs) : RecSetImage(i)
    \/ \E i \in 1..Len(imgs) : RecGetText(i)
    \/ \E i \in 1..Len(imgs) : RecMeanConf(i)
    \/ \E i \in 1..Len(imgs) : RecStore(i)
    \/ RecBatchReturn

SpecBatch == InitBatch /\ [][NextBatch]_vars

(***************************************************************************)
(* Claims about the parallel batch loops (under SpecBatch).                *)
(***************************************************************************)
\* C6: segment_batch over N images yields N result lists and N error slots;
\* whatever the order in which iterations complete, slot i holds what
\* segmenting image i alone gives, and an error is set at index i exactly
\* when image i is malformed (empty or not single-channel).
C6_BatchSlotsFollowInputIndex ==
    bphase \in {"seg", "seg_returned"} =>
        /\ Len(results) = Len(imgs)
        /\ Len(out_errors) = Len(imgs)
        /\ \A i \in 1..Len(imgs) :
              (ipc[i] = "done") =>
                 /\ results[i] = segment_lines(imgs[i]).boxes
                 /\ out_errors[i] = segment_lines(imgs[i]).err
                 /\ (SegMalformed(imgs[i]) <=> out_errors[i] # "")
                 /\ (SegMalformed(imgs[i]) => results[i] = <<>>)

\* C6 witness: a returned batch of two images whose second iteration
\* completed first, with image 1 malformed and image 2 holding a line.
C6_Witness ==
    /\ bphase = "seg_returned"
    /\ Len(imgs) = 2
    /\ finished = <<2, 1>>
    /\ SegMalformed(imgs[1])
    /\ out_errors[1] # ""
    /\ results[2] # <<>>
    /\ out_errors[2] = ""

\* C7: inside both parallel loops iteration i writes only element i of the
\* pre-sized output sequences, and no object shared with other iterations.
C7_IterationsWriteOwnSlotsOnly ==
    \A w \in writes :
        /\ (w[2] \in {"results", "out_errors", "out_texts", "out_confidences"}
              => w[3] = w[1])
        /\ \A v \in writes : (v[1] # w[1]) => (<<v[2], v[3]>> # <<w[2], w[3]>>)

\* C8: at no time are two iterations of recognize_batch between SetImage
\* and the reading of text and confidence on the same engine instance.
C8_EngineUsedByOneIterationAtATime ==
    bphase = "rec" =>
        Cardinality({ i \in 1..Len(imgs) : InEngine(i) }) <= 1

\* C15: in a batch recognition call that holds a malformed image, only the
\* malformed indexes get an error and every other image gets its own
\* recognized text and confidence.
C15_MalformedImageIsolated ==
    (bphase \in {"rec_returned", "api_rejected"}
       /\ \E j \in 1..Len(imgs) : ~imgs[j].valid) =>
        \A i \in 1..Len(imgs) :
            /\ i \in DOMAIN out_texts
            /\ i \in DOMAIN out_confidences
            /\ i \in DOMAIN out_errors
            /\ ~imgs[i].valid => out_errors[i] # ""
            /\ (imgs[i].valid /\ imgs[i].text # "null") =>
                   /\ out_errors[i] = ""
                   /\ out_texts[i] = imgs[i].text
                   /\ out_confidences[i] = MeanTextConf(imgs[i].text)

\* C25: recognize_batch over N images sizes the three output sequences to
\* N, returns true exactly when recognize succeeded for every image, and for
\* every index i out_errors[i] is empty exactly when image i was recognized
\* successfully.  Iteration i found recognize to have failed exactly when it
\* executed `all_ok = false`.
RecognizeFailed(i) == <<i, "all_ok", 0>> \in writes

C25_BatchResultSummarisesRecognize ==
    bphase = "rec_returned" =>
        /\ Len(out_texts) = Len(imgs)
        /\ Len(out_confidences) = Len(imgs)
        /\ Len(out_errors) = Len(imgs)
        /\ all_ok = (\A i \in 1..Len(imgs) : ~RecognizeFailed(i))
        /\ \A i \in 1..Len(imgs) :
              /\ (out_errors[i] = "") = ~RecognizeFailed(i)
              /\ ~imgs[i].valid => RecognizeFailed(i)
              /\ (Len(imgs) = 1 /\ imgs[i].valid /\ imgs[i].text # "null")
                    => ~RecognizeFailed(i)

\* a returned batch whose first image failed and whose second was read
C25_Witness ==
    /\ bphase = "rec_returned"
    /\ Len(imgs) = 2
    /\ ~imgs[1].valid
    /\ out_errors[1] # ""
    /\ out_errors[2] = ""
    /\ out_texts[2] = "A"
    /\ ~all_ok

Init == HInit /\ BIdle /\ DIdle /\ FIdle

Next ==
    \/ \E s \in Stages, img \in RawImages, env \in Envs : SmartCall(s, img, env)
    \/ \E img \in RawImages : PipelineStart(img)
    \/ \E env \in Envs : PipelineStep(env)

Spec == Init /\ [][Next]_vars

(***************************************************************************)
(* Claims about the hybrid stages and the enhanced pipeline (under Spec).  *)
(***************************************************************************)
Called == lastCall.stage \in Stages
PipelineOver == pc \in {"done", "raised"} /\ trace # <<>>

\* C1: on a non-empty image, a true flag means the primary is attempted
\* exactly once, and whenever the primary failed or the flag is false the
\* returned image is the one the fallback strategy produced.
C1_FailedPrimaryUsesFallback ==
    (Called /\ ~IsEmpty(lastCall.input)) =>
        /\ (lastCall.flag => lastCall.primaryAttempts = 1)
        /\ ((lastCall.primaryFailed \/ ~lastCall.flag) /\ ~lastCall.raised
               => lastCall.producedBy = "fallback")

\* C2: a hybrid stage never raises to its caller, and when both the primary
\* and the fallback fail it returns its input unchanged.
C2_StageNeverRaises ==
    Called =>
        /\ ~lastCall.raised
        /\ ((lastCall.primaryFailed \/ ~lastCall.flag) /\ lastCall.fallbackFailed
               => lastCall.out = lastCall.input)

\* C3: with either flag value a stage given an empty image returns an empty
\* image without raising, and so does the enhanced pipeline.
C3_EmptyShortCircuits ==
    /\ (Called /\ IsEmpty(lastCall.input)) =>
           (~lastCall.raised /\ IsEmpty(lastCall.out))
    /\ (PipelineOver /\ IsEmpty(trace[1].input)) =>
           (pc = "done" /\ IsEmpty(cur))

\* C4: no stage invocation changes the availability flag cached at
\* construction, also when the primary fails at runtime, and every
\* invocation made while the flag is true attempts the primary.
C4_FlagCachedAtConstruction ==
    [][ /\ tesseract_available' = tesseract_available
        /\ (tesseract_available /\ lastCall'.stage \in Stages)
              => lastCall'.primaryAttempts = 1 ]_vars

\* C4 witness: the primary has failed in two invocations, the flag is still
\* true and the latest invocation attempted the primary.
C4_Witness ==
    /\ primaryFailures >= 2
    /\ tesseract_available
    /\ lastCall.primaryFailed
    /\ lastCall.primaryAttempts = 1

\* C5: a pipeline invocation runs denoise, threshold, deskew, dewarp in this
\* order, each exactly once and each on the previous stage's output, and no
\* stage failure aborts it.
C5_PipelineRunsEveryStage ==
    PipelineOver =>
        /\ pc = "done"
        /\ Len(trace) = 4
        /\ \A i \in 1..4 :
              /\ trace[i].stage = StageOrder[i]
              /\ (i > 1 => trace[i].input = trace[i-1].out)

\* C11: every stage invocation that returns leaves in the diagnostics slot
\* the record of that invocation (its stage name with the elapsed time),
\* on the fallback path and after a failed primary as well as after a
\* successful primary.
C11_StageRecordsDiagnostics ==
    (Called /\ ~lastCall.raised) =>
        lastCall.timing = TimingName(lastCall.stage)

(***************************************************************************)
(* Single calls of the segmentation entry points and of the field         *)
(* extractor.                                                              *)
(***************************************************************************)
InitSeg ==
    /\ HIdle /\ BIdle /\ DIdle /\ LIdle /\ OIdle
    /\ \E img \in SegInputs, level \in InkLevels :
          segCall = [NoSegCall EXCEPT !.img = img, !.level = level]
    /\ fieldCall = NoFieldCall

NextSeg ==
    \/ CallSegmenter("Segmenter::segment_lines")
    \/ CallSegmenter("Segmenter::segment_words")
    \/ CallSegmenter("Segmenter::segment_with_confidence")
    \/ CallSegmenter("segment_lines")

SpecSeg == InitSeg /\ [][NextSeg]_vars

InitFields ==
    /\ HIdle /\ BIdle /\ DIdle /\ LIdle /\ OIdle
    /\ segCall = NoSegCall
    /\ \E t \in OcrTexts : fieldCall = [NoFieldCall EXCEPT !.text = t]

NextFields == CallExtractFields

SpecFields == InitFields /\ [][NextFields]_vars

(***************************************************************************)
(* Claims about line segmentation (under SpecSeg).                         *)
(***************************************************************************)
\* a row of the binarized image whose foreground count is above cols / 20
InkRow(img, y) ==
    y >= 0 /\ y < Len(img.rows) /\ Cardinality(img.rows[y + 1]) > img.cols \div 20

\* the ink bands of an image: the maximal runs of such rows
InkBandStarts(img) ==
    { y \in 0..(Len(img.rows) - 1) : InkRow(img, y) /\ ~InkRow(img, y - 1) }
InkBandEnd(img, y0) ==
    SetMax({ y1 \in y0..(Len(img.rows) - 1) : \A yy \in y0..y1 : InkRow(img, yy) })

\* every band of the image is at least 8 rows tall
AllBandsTall(img) ==
    /\ ~SegMalformed(img)
    /\ \A y0 \in InkBandStarts(img) : InkBandEnd(img, y0) - y0 + 1 >= 8

LinesCalled == segCall.entry = "Segmenter::segment_lines"

\* C12: on an image with k ink bands, each at least 8 rows tall, line
\* segmentation returns exactly k regions, one per band (its first row and
\* its height), in strictly increasing y, wherever the bands lie - also when
\* a band ends at the last row of the image.
C12_OneRegionPerBand ==
    (LinesCalled /\ AllBandsTall(segCall.img)) =>
        LET img == segCall.img
            boxes == segCall.boxes
        IN  /\ Len(boxes) = Cardinality(InkBandStarts(img))
            /\ \A i \in 1..Len(boxes) :
                  /\ boxes[i].y \in InkBandStarts(img)
                  /\ boxes[i].h = InkBandEnd(img, boxes[i].y) - boxes[i].y + 1
            /\ \A i \in 1..(Len(boxes) - 1) : boxes[i].y < boxes[i + 1].y

\* a region that lies inside the image it was found in
RegionInside(b, img) ==
    /\ b.w > 0 /\ b.h > 0 /\ b.x >= 0 /\ b.y >= 0
    /\ b.x + b.w <= img.cols
    /\ b.y + b.h <= Len(img.rows)

\* C13: every region returned by Segmenter::segment_lines (and so every
\* region cropped by segment_with_confidence) has positive width and height,
\* non-negative x and y, and lies inside the cols x rows image.
C13_RegionsInsideImage ==
    (segCall.entry \in {"Segmenter::segment_lines",
                        "Segmenter::segment_with_confidence"}) =>
        \A i \in 1..Len(segCall.boxes) : RegionInside(segCall.boxes[i], segCall.img)

\* C13 witness: segment_lines returned two regions that span the image from
\* its left border to its right border.
C13_Witness ==
    /\ LinesCalled
    /\ Len(segCall.boxes) >= 2
    /\ \A i \in 1..Len(segCall.boxes) :
          /\ segCall.boxes[i].x = 0
          /\ segCall.boxes[i].x + segCall.boxes[i].w = segCall.img.cols

\* C14: segmenting an empty or non-single-channel image never raises to the
\* caller and reports the usage error as that image's error value: a
\* non-empty error message with an empty region list - for every
\* line-segmentation entry point, the free function segment_lines included.
C14_UsageErrorIsReturnedNotRaised ==
    (segCall.entry \in SegEntries /\ SegMalformed(segCall.img)) =>
        /\ ~segCall.raised
        /\ segCall.err # ""
        /\ segCall.boxes = <<>>

\* C22: every ScoredRegion returned by segment_with_confidence has a
\* confidence in [0.0, 1.0] that equals the number of foreground pixels of
\* the region's re-binarized crop divided by the crop's area, and the list
\* holds one ScoredRegion per line Region, in the order of line detection.
ScoredCalled == segCall.entry = "Segmenter::segment_with_confidence"

C22_ConfidenceIsForegroundRatio ==
    ScoredCalled =>
        LET lines == segment_lines(segCall.img).boxes
            sc == segCall.scored
        IN  /\ segCall.err = "" => Len(sc) = Len(lines)
            /\ \A i \in 1..Len(sc) :
                  LET c == sc[i].confidence
                      fg == Cardinality(Rebinarize(segCall.img, segCall.level, sc[i].box))
                      area == sc[i].box.w * sc[i].box.h
                  IN  /\ sc[i].box = lines[i]
                      /\ c.den > 0 /\ 0 <= c.num /\ c.num <= c.den
                      /\ c.num * area = fg * c.den

\* two lines were scored and the first has a confidence strictly between 0
\* and 1
C22_Witness ==
    /\ ScoredCalled
    /\ Len(segCall.scored) >= 2
    /\ segCall.scored[1].confidence.num > 0
    /\ segCall.scored[1].confidence.num < segCall.scored[1].confidence.den
    /\ segCall.scored[1].box.y < segCall.scored[2].box.y

\* C23: line segmentation of a non-empty single-channel image whose
\* binarization has no foreground pixel in any row (a blank page) returns an
\* empty Region list and an empty error message.
BlankPage(img) ==
    /\ ~SegMalformed(img)
    /\ \A y \in 1..Len(img.rows) : img.rows[y] = {}

C23_BlankPageHasNoRegions ==
    (LinesCalled /\ BlankPage(segCall.img)) =>
        /\ segCall.boxes = <<>>
        /\ segCall.err = ""
        /\ ~segCall.raised

\* segment_lines was called on a blank page of ten rows
C23_Witness ==
    /\ LinesCalled
    /\ BlankPage(segCall.img)
    /\ Len(segCall.img.rows) = 10

\* C27: in Segmenter::segment_lines a band is closed only when the scan
\* reaches a row whose foreground count is at or below cols / 20: the last
\* row of every emitted Region is immediately followed by such a row of the
\* image, and a band of 8 or more qualifying rows that is still open at the
\* last row of the image yields no Region.
OpenAtLastRow(img, y0) == InkBandEnd(img, y0) = Len(img.rows) - 1

C27_BandClosedOnlyByQuietRow ==
    (LinesCalled /\ ~SegMalformed(segCall.img)) =>
        LET img == segCall.img
            boxes == segCall.boxes
        IN  /\ \A i \in 1..Len(boxes) :
                  /\ boxes[i].y + boxes[i].h < Len(img.rows)
                  /\ InkRow(img, boxes[i].y + boxes[i].h - 1)
                  /\ ~InkRow(img, boxes[i].y + boxes[i].h)
            /\ \A y0 \in InkBandStarts(img) :
                  (OpenAtLastRow(img, y0) /\ Len(img.rows) - y0 >= min_line_height) =>
                      \A i \in 1..Len(boxes) : boxes[i].y + boxes[i].h <= y0

\* a page whose last band, 8 rows or more, runs to the last row and whose
\* earlier bands gave Regions
C27_Witness ==
    /\ LinesCalled
    /\ Len(segCall.boxes) >= 1
    /\ \E y0 \in InkBandStarts(segCall.img) :
          /\ OpenAtLastRow(segCall.img, y0)
          /\ Len(segCall.img.rows) - y0 >= min_line_height

(***************************************************************************)
(* Claims about field extraction (under SpecFields).                       *)
(***************************************************************************)
\* C20: from the text holding "Invoice Number: INV12345", "Date: 2023-05-12"
\* and "Total: $1,234.56" the extracted fields are the invoice number
\* INV12345, the date 2023-05-12 and the total 1,234.56.
C20_SampleFieldsExtracted ==
    (fieldCall.called /\ fieldCall.text = SampleText) =>
        /\ DOMAIN fieldCall.fields = FieldNames
        /\ fieldCall.fields["invoice_number"] = <<"I","N","V","1","2","3","4","5">>
        /\ fieldCall.fields["date"] = <<"2","0","2","3","-","0","5","-","1","2">>
        /\ fieldCall.fields["total"] = <<"1",",","2","3","4",".","5","6">>

\* C21: for every input text the returned map has only keys of the fixed
\* vocabulary (invoice number, date, total), every key present maps to a
\* non-empty string, and a field whose pattern is not found in the text is
\* absent from the map.
C21_FieldMapHasOnlyFoundFields ==
    fieldCall.called =>
        /\ DOMAIN fieldCall.fields \subseteq FieldNames
        /\ \A k \in DOMAIN fieldCall.fields : fieldCall.fields[k] # <<>>
        /\ ("invoice_number" \in DOMAIN fieldCall.fields) = InvNumSearch(fieldCall.text).found
        /\ ("date" \in DOMAIN fieldCall.fields) = DateSearch(fieldCall.text).found
        /\ ("total" \in DOMAIN fieldCall.fields) = TotalSearch(fieldCall.text).found

\* a text was processed in which one field was found and another was not
C21_Witness ==
    /\ fieldCall.called
    /\ "date" \in DOMAIN fieldCall.fields
    /\ "total" \notin DOMAIN fieldCall.fields
    /\ "invoice_number" \notin DOMAIN fieldCall.fields

(***************************************************************************)
(* Callers of the process-wide HybridPreprocessor on several threads.      *)
(***************************************************************************)
InitLazy ==
    /\ HIdle /\ BIdle /\ DIdle
    /\ segCall = NoSegCall
    /\ fieldCall = NoFieldCall
    /\ LIdle
    /\ OIdle

NextLazy ==
    \/ \E t \in Threads, fn \in LazyCalls : ThreadCall(t, fn)
    \/ \E t \in Threads : TestNull(t)
    \/ \E t \in Threads, o \in MakeOutcomes : MakeUnique(t, o)
    \/ \E t \in Threads : AssignUnique(t)
    \/ \E t \in Threads : GetPointer(t)
    \/ \E t \in Threads : ReturnAvailable(t)
    \/ \E t \in Threads : RunOnInstance(t)

SpecLazy == InitLazy /\ [][NextLazy]_vars

\* C26: is_tesseract_preprocessing_available returns 1 exactly when the
\* orchestrator's availability flag, cached when it was constructed, is
\* true, and 0 when that flag is false.
C26_ReturnsCachedAvailability ==
    \A t \in Threads :
        (/\ threads[t].call = "is_tesseract_preprocessing_available"
         /\ threads[t].pc = "done"
         /\ threads[t].ptr # 0) =>
            (threads[t].ret = 1) = instances[threads[t].ptr].tesseract_available_

\* C29: whatever the interleaving of first calls, one HybridPreprocessor is
\* constructed for the process, and a caller that holds the pointer returned
\* by get_hybrid_preprocessor holds the live instance the process owns.
C29_OneLiveInstance ==
    /\ Len(instances) <= 1
    /\ \A t \in Threads :
          (threads[t].pc \in {"have", "done"} /\ threads[t].ptr # 0) =>
              /\ instances[threads[t].ptr].alive
              /\ threads[t].used # "freed"

(***************************************************************************)
(* Single calls of the contour-based dewarp.                                *)
(***************************************************************************)
InitDewarp ==
    /\ HIdle /\ BIdle /\ DIdle /\ LIdle
    /\ segCall = NoSegCall
    /\ fieldCall = NoFieldCall
    /\ pixRun = NoPixRun
    /\ \E img \in DewarpImages, a \in Approximations :
          dewarpCall = [NoDewarpCall EXCEPT !.img = img, !.approx = a]

NextDewarp ==
    \/ CallDewarp("dewarp")
    \/ CallDewarp("HybridPreprocessor::smart_dewarp")

SpecDewarp == InitDewarp /\ [][NextDewarp]_vars

DewarpCalled == dewarpCall.entry \in DewarpEntries

\* C24: in dewarp and in the fallback of smart_dewarp, when no contour is
\* found or the polygon approximating the largest contour does not have
\* exactly four vertices, the returned image has the size and the content of
\* the input.
C24_NoQuadIsIdentity ==
    (DewarpCalled /\ (~dewarpCall.approx.found \/ Len(dewarpCall.approx.quad) # 4)) =>
        /\ dewarpCall.out.cols = dewarpCall.img.cols
        /\ dewarpCall.out.rows = dewarpCall.img.rows
        /\ dewarpCall.out.channels = dewarpCall.img.channels
        /\ dewarpCall.out.data = dewarpCall.img.data

\* the fallback of smart_dewarp was given a five-vertex polygon
C24_Witness ==
    /\ dewarpCall.entry = "HybridPreprocessor::smart_dewarp"
    /\ dewarpCall.approx.found
    /\ Len(dewarpCall.approx.quad) = 5
    /\ dewarpCall.out = dewarpCall.img

\* C30: for every four-vertex polygon the four source corners chosen after
\* the sort by y are the four vertices of the polygon, each used once, also
\* when the two upper or the two lower vertices have the same x.
C30_CornersAreTheFourVertices ==
    (DewarpCalled /\ dewarpCall.approx.found /\ Len(dewarpCall.approx.quad) = 4) =>
        LET src == dewarpCall.out.data.src
            quad == dewarpCall.approx.quad
        IN  /\ Len(src) = 4
            /\ { src[i] : i \in 1..4 } = { quad[i] : i \in 1..4 }
            /\ \A i, j \in 1..4 : i # j => src[i] # src[j]

(***************************************************************************)
(* Single invocations of a TesseractPreprocessor stage.                     *)
(***************************************************************************)
InitPix ==
    /\ HIdle /\ BIdle /\ DIdle /\ LIdle
    /\ segCall = NoSegCall
    /\ fieldCall = NoFieldCall
    /\ dewarpCall = NoDewarpCall
    /\ \E stage \in PixStages, matOk \in BOOLEAN, convOk \in BOOLEAN,
          r \in [1..3 -> LibResults] :
          pixRun = [NoPixRun EXCEPT !.stage = stage, !.matOk = matOk,
                                    !.r = r, !.convOk = convOk]

NextPix == CallPixStage

SpecPix == InitPix /\ [][NextPix]_vars

\* C28: when a stage invocation has returned, every Pix handle created
\* during it has been destroyed exactly once - none twice, none left - also
\* when pix_to_mat was given a Pix of a depth other than 8 and converted it.
C28_EveryPixDestroyedOnce ==
    pixRun.returned =>
        \A i \in 1..Len(pixRun.handles) : pixRun.handles[i].destroys = 1

====
